---- MODULE Spec2Model ----
(***************************************************************************)
(* A model of pngdoctor: the chunk token stream of lexer.py (signature,    *)
(* chunk framing, CRC-32, byte budget) and the chunk order parser of       *)
(* chunk_order_parser.py (ordering state machine, occurrence counters).    *)
(*                                                                         *)
(* Bytes are the integers 0..255 and a bytes object is a sequence of them. *)
(* TLC's integers are 32-bit signed, so an unsigned 32-bit value (a        *)
(* declared chunk length, a CRC-32) is kept as two 16-bit halves           *)
(* [hi, lo], value = hi * 65536 + lo.                                      *)
(***************************************************************************)
EXTENDS Integers, Sequences, FiniteSets, TLC

VARIABLES
    stream,            \* bytes the byte source has not handed out yet
    stream_pos,        \* number of bytes the byte source has handed out
    stream_reads,      \* number of read() requests the byte source received
    total_bytes_read,  \* ChunkTokenStream.total_bytes_read
    chunk_state,       \* ChunkTokenStream._chunk_state: <<>> is None, <<s>> a _SingleChunkState
    pc,                \* where the generator of __iter__ stands; "calls" when methods are called directly
    initial,           \* __iter__'s local: the byte read to detect the end of the file
    tokens,            \* the tokens produced so far (yielded by __iter__, or returned by direct calls)
    raised,            \* the exception that ended the iteration / the last direct call ("none": no exception)
    ncalls,            \* number of direct method calls made
    last_call,         \* the last direct call: [method, arg]
    contents,          \* the bytes the byte source held when the token stream was constructed
    fake_chunks,       \* the chunks the byte source was built from (as the tests build it)
    damage,            \* what was done to those bytes afterwards (nothing, a truncation, one changed byte)
    order_state,       \* ChunkOrderParser._state
    nseen,             \* _ChunkCountValidator._nseen
    order_last,        \* the code passed to the last validate call (<<>>: none, or validate_end)
    order_raised,      \* the exception the last validate / validate_end call raised ("none": it returned)
    order_calls,       \* number of validate / validate_end calls made
    passed,            \* how many times each code has been passed to validate
    accepted,          \* the codes for which a validate call has returned
    codes,             \* the code sequence a parser is fed from first to last (<<>>: any calls, in any order)
    input,             \* what a chunk parser or an image data routine is applied to ([kind |-> "none"]: nothing)
    result             \* what it raised and returned ([kind |-> "none"]: not applied yet)

lexer_vars == <<stream, stream_pos, stream_reads, total_bytes_read, chunk_state,
                pc, initial, tokens, raised, ncalls, last_call, contents, fake_chunks, damage>>
order_vars == <<order_state, nseen, order_last, order_raised, order_calls, passed, accepted, codes>>
apply_vars == <<input, result>>
vars == <<stream, stream_pos, stream_reads, total_bytes_read, chunk_state,
          pc, initial, tokens, raised, ncalls, last_call, contents, fake_chunks, damage,
          order_state, nseen, order_last, order_raised, order_calls, passed, accepted, codes,
          input, result>>

(***************************************************************************)
(* Bounds of the model.                                                    *)
(***************************************************************************)
MaxChunks == 1         \* chunks in a generated stream
MaxDataLen == 1        \* data bytes of a chunk in a generated stream
MaxParts == 2          \* full data parts of the long IDAT chunks
MaxCalls == 3          \* direct method calls on one token stream
MaxReadArg == 3        \* the length passed to a direct _read call
NearLimit == 2         \* how far below the byte budget a direct-call run may start
MaxValidateCalls == 4  \* validate / validate_end calls on one order parser
MaxSequenceLen == 5    \* codes of a sequence fed to one order parser
MaxMethod == 2         \* largest compression, filter and interlace method value of a generated IHDR payload
MaxPaletteLen == 772   \* bytes of a generated PLTE payload
MaxDecodeLen == 4      \* chunks of a decoded image
MaxWidth == 10         \* width of a located image
MaxHeight == 10        \* height of a located image
MaxScanlineData == 3   \* bytes of a scanline after its filter type byte
MaxUnfilterCalls == 2  \* calls of unfilter_scanline on one unfilterer
MaxDeflateData == 3    \* bytes a compressed stream inflates to
MaxExtra == 2          \* bytes after the end of a compressed stream
MaxDecompressCalls == 3  \* calls of decompress on one decompressor

(***************************************************************************)
(* Bytes and unsigned 32-bit values.                                       *)
(***************************************************************************)
Byte == 0..255

Min(a, b) == IF a < b THEN a ELSE b

Bit(a, i) == (a \div (2 ^ i)) % 2

Xor8(a, b) ==
      ((Bit(a, 0) + Bit(b, 0)) % 2)
    + ((Bit(a, 1) + Bit(b, 1)) % 2) * 2
    + ((Bit(a, 2) + Bit(b, 2)) % 2) * 4
    + ((Bit(a, 3) + Bit(b, 3)) % 2) * 8
    + ((Bit(a, 4) + Bit(b, 4)) % 2) * 16
    + ((Bit(a, 5) + Bit(b, 5)) % 2) * 32
    + ((Bit(a, 6) + Bit(b, 6)) % 2) * 64
    + ((Bit(a, 7) + Bit(b, 7)) % 2) * 128

XorByteTable == [a \in Byte |-> [b \in Byte |-> Xor8(a, b)]]

XorByte(a, b) == XorByteTable[a][b]

Xor16(a, b) == XorByte(a \div 256, b \div 256) * 256 + XorByte(a % 256, b % 256)

U32(hi, lo) == [hi |-> hi, lo |-> lo]

U32Xor(x, y) == U32(Xor16(x.hi, y.hi), Xor16(x.lo, y.lo))

U32Shr1(x) == U32(x.hi \div 2, (x.hi % 2) * 32768 + x.lo \div 2)

U32Shr8(x) == U32(x.hi \div 256, (x.hi % 256) * 256 + x.lo \div 256)

U32FromInt(n) == U32(n \div 65536, n % 65536)

U32Gt(x, y) == x.hi > y.hi \/ (x.hi = y.hi /\ x.lo > y.lo)

\* the integer an unsigned 32-bit value below 2^31 stands for
U32ToInt(x) == x.hi * 65536 + x.lo

\* struct.unpack('>I', b): four bytes, most significant first
UnpackU32(b) == U32(b[1] * 256 + b[2], b[3] * 256 + b[4])

\* struct.pack('>I', x)
PackU32(x) == <<x.hi \div 256, x.hi % 256, x.lo \div 256, x.lo % 256>>

(***************************************************************************)
(* zlib.crc32: the CRC-32 of polynomial 0xEDB88320 (reflected), all-ones   *)
(* initial register, complemented result; crc32(data, value) continues a   *)
(* checksum whose value so far is `value`.                                 *)
(***************************************************************************)
CRC_POLY == U32(60856, 33568)

U32_ONES == U32(65535, 65535)

CrcBit(c) == IF c.lo % 2 = 1 THEN U32Xor(CRC_POLY, U32Shr1(c)) ELSE U32Shr1(c)

CrcTable == [i \in Byte |->
    CrcBit(CrcBit(CrcBit(CrcBit(CrcBit(CrcBit(CrcBit(CrcBit(U32(0, i)))))))))]

CrcByte(c, b) == U32Xor(CrcTable[XorByte(c.lo % 256, b)], U32Shr8(c))

\* the register after the bytes data[lo..hi]; the register c and the bounds are
\* bound to their values (the one element of {c}, {lo}, {hi}) before the bytes
\* are taken, whatever the evaluator does with operator arguments
RECURSIVE CrcRange(_, _, _, _)
CrcFrom(v, data, lo, hi) ==
    IF lo > hi THEN v
    ELSE IF lo = hi THEN CrcByte(v, data[lo])
    ELSE LET mid == (lo + hi) \div 2
         IN  CrcRange(CrcRange(v, data, lo, mid), data, mid + 1, hi)

CrcRange(c, data, lo, hi) == CHOOSE r \in {CrcFrom(v, data, l, h) : v \in {c}, l \in {lo}, h \in {hi}} : TRUE

crc32(data, value) ==
    CHOOSE r \in {U32Xor(CrcRange(U32Xor(v, U32_ONES), d, 1, Len(d)), U32_ONES) :
                      v \in {value}, d \in {data}} : TRUE

(***************************************************************************)
(* Constants of lexer.py and models.py.                                    *)
(***************************************************************************)
PNG_SIGNATURE == <<137, 80, 78, 71, 13, 10, 26, 10>>

PNG_MAX_FILE_SIZE == 20 * 2^20

\* 2**31 - 1, written so that no intermediate value leaves TLC's integers
PNG_MAX_CHUNK_LENGTH == (2^30 - 1) + 2^30

PNG_CHUNK_MAX_DATA_READ == 4 * 2^10

PNG_CHUNK_TYPE_CODE_ALLOWED_BYTES == (65..90) \cup (97..122)

IsSuperset(S, b) == \A i \in 1..Len(b) : b[i] \in S

(***************************************************************************)
(* The token stream object and its byte source.  A method is an operator   *)
(* from the object's fields o (and the arguments) to                        *)
(* [o: the fields afterwards, exc: the exception raised or "none",         *)
(*  ret: the value returned], exactly as the method's code runs.           *)
(***************************************************************************)
Self == [stream |-> stream, stream_pos |-> stream_pos, stream_reads |-> stream_reads,
         total_bytes_read |-> total_bytes_read, chunk_state |-> chunk_state]

Return(o, ret) == [o |-> o, exc |-> "none", ret |-> ret]

Raise(o, exc) == [o |-> o, exc |-> exc, ret |-> <<>>]

\* self._stream.read(length) of a binary file object: the next min(length, left) bytes
StreamRead(o, length) ==
    LET actual == Min(length, Len(o.stream))
    IN  [o   |-> [o EXCEPT !.stream = SubSeq(@, actual + 1, Len(@)),
                           !.stream_pos = @ + actual,
                           !.stream_reads = @ + 1],
         ret |-> SubSeq(o.stream, 1, actual)]

\* a variant that asks the byte source first and looks at the budget afterwards
_read_checking_late(o, length) ==
    LET r      == StreamRead(o, length)
        actual == Len(r.ret)
        o1     == [r.o EXCEPT !.total_bytes_read = @ + actual]
    IN  IF length + o.total_bytes_read > PNG_MAX_FILE_SIZE
        THEN Raise(o1, "PNGTooLarge")
        ELSE IF length > actual
        THEN Raise(o1, "UnexpectedEOF")
        ELSE Return(o1, r.ret)

\* a variant that counts the bytes only of a read that was served in full
_read_counting_full_reads(o, length) ==
    IF length + o.total_bytes_read > PNG_MAX_FILE_SIZE
    THEN Raise(o, "PNGTooLarge")
    ELSE LET r      == StreamRead(o, length)
             actual == Len(r.ret)
         IN  IF length > actual
             THEN Raise(r.o, "UnexpectedEOF")
             ELSE Return([r.o EXCEPT !.total_bytes_read = @ + actual], r.ret)

_read(o, length) ==
    IF length + o.total_bytes_read > PNG_MAX_FILE_SIZE
    THEN Raise(o, "PNGTooLarge")
    ELSE LET r      == StreamRead(o, length)
             actual == Len(r.ret)
             o1     == [r.o EXCEPT !.total_bytes_read = @ + actual]
         IN  IF length > actual
             THEN Raise(o1, "UnexpectedEOF")
             ELSE Return(o1, r.ret)

\* a variant that takes a short read for a wrong signature
_validate_signature_comparing_short_reads(o) ==
    LET r == _read(o, Len(PNG_SIGNATURE))
    IN  IF r.exc = "UnexpectedEOF" THEN Raise(r.o, "SignatureMismatch")
        ELSE IF r.exc # "none" THEN r
        ELSE IF r.ret # PNG_SIGNATURE THEN Raise(r.o, "SignatureMismatch")
        ELSE Return(r.o, <<>>)

_validate_signature(o) ==
    LET r == _read(o, Len(PNG_SIGNATURE))
    IN  IF r.exc # "none" THEN r
        ELSE IF r.ret # PNG_SIGNATURE THEN Raise(r.o, "SignatureMismatch")
        ELSE Return(r.o, <<>>)

ChunkHeadToken(length, code, position) ==
    [kind |-> "Head", length |-> length, code |-> code, position |-> position]

ChunkDataPartToken(head, data) == [kind |-> "DataPart", head |-> head, data |-> data]

ChunkEndToken(head, crc32ok) == [kind |-> "End", head |-> head, crc32ok |-> crc32ok]

\* a variant that asks for all the remaining data at once
_update_next_read_uncapped(s) == [s EXCEPT !.next_read = s.data_remaining]

\* _SingleChunkState._update_next_read
_update_next_read(s) ==
    [s EXCEPT !.next_read = Min(PNG_CHUNK_MAX_DATA_READ, s.data_remaining)]

\* _SingleChunkState.__init__
SingleChunkState(head) ==
    _update_next_read([head           |-> head,
                       data_remaining |-> head.length,
                       crc32          |-> crc32(head.code, U32(0, 0)),
                       next_read      |-> 0])

\* a variant that does not count the data down
update_without_countdown(s, data) ==
    IF Len(data) # s.next_read THEN s
    ELSE [_update_next_read(s) EXCEPT !.crc32 = crc32(data, s.crc32)]

\* a variant that refreshes next_read before it counts the data down
update_refreshing_early(s, data) ==
    IF Len(data) # s.next_read THEN s
    ELSE LET s1 == _update_next_read(s)
             s2 == [s1 EXCEPT !.data_remaining = @ - s.next_read]
         IN  [s2 EXCEPT !.crc32 = crc32(data, s.crc32)]

\* _SingleChunkState.update; data is next_read bytes long (the ValueError branch
\* leaves the state as it is)
update(s, data) ==
    IF Len(data) # s.next_read THEN s
    ELSE LET s1 == [s EXCEPT !.data_remaining = @ - s.next_read]
             s2 == _update_next_read(s1)
         IN  [s2 EXCEPT !.crc32 = crc32(data, s.crc32)]

\* a variant that reads the length and the code before it looks at either
_get_chunk_head_reading_code_first(o, prepend_byte) ==
    IF o.chunk_state # <<>> THEN Raise(o, "StreamStateError")
    ELSE LET start_position == o.total_bytes_read
             r1 == _read(o, 3)
         IN  IF r1.exc # "none" THEN r1
             ELSE LET length == UnpackU32(prepend_byte \o r1.ret)
                      r2 == _read(r1.o, 4)
                  IN  IF r2.exc # "none" THEN r2
                      ELSE IF U32Gt(length, U32FromInt(PNG_MAX_CHUNK_LENGTH))
                      THEN Raise(r2.o, "PNGSyntaxError")
                      ELSE LET type_code == r2.ret
                               head == ChunkHeadToken(U32ToInt(length), type_code,
                                                      start_position)
                           IN  IF ~IsSuperset(PNG_CHUNK_TYPE_CODE_ALLOWED_BYTES, type_code)
                               THEN Raise(r2.o, "PNGSyntaxError")
                               ELSE Return([r2.o EXCEPT !.chunk_state =
                                                <<SingleChunkState(head)>>], head)

\* a variant that takes the position once the head has been read
_get_chunk_head_positioned_late(o, prepend_byte) ==
    IF o.chunk_state # <<>> THEN Raise(o, "StreamStateError")
    ELSE LET r1 == _read(o, 3)
         IN  IF r1.exc # "none" THEN r1
             ELSE LET length == UnpackU32(prepend_byte \o r1.ret)
                  IN  IF U32Gt(length, U32FromInt(PNG_MAX_CHUNK_LENGTH))
                      THEN Raise(r1.o, "PNGSyntaxError")
                      ELSE LET r2 == _read(r1.o, 4)
                           IN  IF r2.exc # "none" THEN r2
                               ELSE LET type_code == r2.ret
                                        head == ChunkHeadToken(U32ToInt(length), type_code,
                                                               r2.o.total_bytes_read)
                                    IN  IF ~IsSuperset(PNG_CHUNK_TYPE_CODE_ALLOWED_BYTES, type_code)
                                        THEN Raise(r2.o, "PNGSyntaxError")
                                        ELSE Return([r2.o EXCEPT !.chunk_state =
                                                         <<SingleChunkState(head)>>], head)

_get_chunk_head(o, prepend_byte) ==
    IF o.chunk_state # <<>> THEN Raise(o, "StreamStateError")
    ELSE LET start_position == o.total_bytes_read
             r1 == _read(o, 3)
         IN  IF r1.exc # "none" THEN r1
             ELSE LET length == UnpackU32(prepend_byte \o r1.ret)
                  IN  IF U32Gt(length, U32FromInt(PNG_MAX_CHUNK_LENGTH))
                      THEN Raise(r1.o, "PNGSyntaxError")
                      ELSE LET r2 == _read(r1.o, 4)
                           IN  IF r2.exc # "none" THEN r2
                               ELSE LET type_code == r2.ret
                                        head == ChunkHeadToken(U32ToInt(length), type_code,
                                                               start_position)
                                    IN  IF ~IsSuperset(PNG_CHUNK_TYPE_CODE_ALLOWED_BYTES, type_code)
                                        THEN Raise(r2.o, "PNGSyntaxError")
                                        ELSE Return([r2.o EXCEPT !.chunk_state =
                                                         <<SingleChunkState(head)>>], head)

\* a variant that only looks whether a chunk is in flight
_get_chunk_data_reading_nothing(o) ==
    IF o.chunk_state = <<>>
    THEN Raise(o, "StreamStateError")
    ELSE LET r == _read(o, o.chunk_state[1].next_read)
         IN  IF r.exc # "none" THEN r
             ELSE LET s == update(r.o.chunk_state[1], r.ret)
                  IN  Return([r.o EXCEPT !.chunk_state = <<s>>],
                             ChunkDataPartToken(s.head, r.ret))

_get_chunk_data(o) ==
    IF o.chunk_state = <<>> \/ o.chunk_state[1].next_read = 0
    THEN Raise(o, "StreamStateError")
    ELSE LET r == _read(o, o.chunk_state[1].next_read)
         IN  IF r.exc # "none" THEN r
             ELSE LET s == update(r.o.chunk_state[1], r.ret)
                  IN  Return([r.o EXCEPT !.chunk_state = <<s>>],
                             ChunkDataPartToken(s.head, r.ret))

\* a variant that leaves the finished chunk's state in place
_get_chunk_end_keeping_state(o) ==
    IF o.chunk_state = <<>> \/ o.chunk_state[1].next_read # 0
    THEN Raise(o, "StreamStateError")
    ELSE LET r == _read(o, 4)
         IN  IF r.exc # "none" THEN r
             ELSE LET declared_crc32 == UnpackU32(r.ret)
                      crc32okay == (declared_crc32 = o.chunk_state[1].crc32)
                  IN  Return(r.o, ChunkEndToken(o.chunk_state[1].head, crc32okay))

_get_chunk_end(o) ==
    IF o.chunk_state = <<>> \/ o.chunk_state[1].next_read # 0
    THEN Raise(o, "StreamStateError")
    ELSE LET r == _read(o, 4)
         IN  IF r.exc # "none" THEN r
             ELSE LET declared_crc32 == UnpackU32(r.ret)
                      crc32okay == (declared_crc32 = o.chunk_state[1].crc32)
                  IN  Return([r.o EXCEPT !.chunk_state = <<>>],
                             ChunkEndToken(o.chunk_state[1].head, crc32okay))

(***************************************************************************)
(* Chunk type codes (chunktypes.py) and two codes outside the registry.    *)
(***************************************************************************)
IMAGE_HEADER == <<73, 72, 68, 82>>                   \* b'IHDR'
PALETTE == <<80, 76, 84, 69>>                        \* b'PLTE'
IMAGE_DATA == <<73, 68, 65, 84>>                     \* b'IDAT'
IMAGE_TRAILER == <<73, 69, 78, 68>>                  \* b'IEND'
TRANSPARENCY == <<116, 82, 78, 83>>                  \* b'tRNS'
IMAGE_GAMMA == <<103, 65, 77, 65>>                   \* b'gAMA'
PRIMARY_CHROMATICITIES == <<99, 72, 82, 77>>         \* b'cHRM'
STANDARD_RGB_COLOR_SPACE == <<115, 82, 71, 66>>      \* b'sRGB'
EMBEDDED_ICC_PROFILE == <<105, 67, 67, 80>>          \* b'iCCP'
TEXTUAL_DATA == <<116, 69, 88, 116>>                 \* b'tEXt'
COMPRESSED_TEXTUAL_DATA == <<122, 84, 88, 116>>      \* b'zTXt'
INTERNATIONAL_TEXTUAL_DATA == <<105, 84, 88, 116>>   \* b'iTXt'
BACKGROUND_COLOR == <<98, 75, 71, 68>>               \* b'bKGD'
PHYSICAL_PIXEL_DIMENSIONS == <<112, 72, 89, 115>>    \* b'pHYs'
SIGNIFICANT_BITS == <<115, 66, 73, 84>>              \* b'sBIT'
SUGGESTED_PALETTE == <<115, 80, 76, 84>>             \* b'sPLT'
PALETTE_HISTOGRAM == <<104, 73, 83, 84>>             \* b'hIST'
IMAGE_LAST_MODIFICATION_TIME == <<116, 73, 77, 69>>  \* b'tIME'

CODE_TO_CHUNK_TYPE ==
    {IMAGE_HEADER, PALETTE, IMAGE_DATA, IMAGE_TRAILER, TRANSPARENCY, IMAGE_GAMMA,
     PRIMARY_CHROMATICITIES, STANDARD_RGB_COLOR_SPACE, EMBEDDED_ICC_PROFILE, TEXTUAL_DATA,
     COMPRESSED_TEXTUAL_DATA, INTERNATIONAL_TEXTUAL_DATA, BACKGROUND_COLOR,
     PHYSICAL_PIXEL_DIMENSIONS, SIGNIFICANT_BITS, SUGGESTED_PALETTE, PALETTE_HISTOGRAM,
     IMAGE_LAST_MODIFICATION_TIME}

\* b'ukwn' (the tests' unknown code) and b'prIv'
UnknownCodes == {<<117, 107, 119, 110>>, <<112, 114, 73, 118>>}

(***************************************************************************)
(* Byte sources, built as tests/test_lexer.py builds them: RawChunkData    *)
(* encodes one chunk, the contents are the signature and the chunks.       *)
(***************************************************************************)
RawChunkData(type, data) == [type |-> type, data |-> data]

crc32_bytes(fake) == PackU32(crc32(fake.data, crc32(fake.type, U32(0, 0))))

bytes(fake) == PackU32(U32FromInt(Len(fake.data))) \o fake.type \o fake.data

bytes_with_crc32(fake) == bytes(fake) \o crc32_bytes(fake)

RECURSIVE JoinChunks(_)
JoinChunks(fakes) ==
    IF fakes = <<>> THEN <<>>
    ELSE bytes_with_crc32(Head(fakes)) \o JoinChunks(Tail(fakes))

Contents(fakes) == PNG_SIGNATURE \o JoinChunks(fakes)

ihdr_one_by_one_rgb24 == RawChunkData(IMAGE_HEADER, <<0, 0, 0, 1, 0, 0, 0, 1, 8, 2, 0, 0, 0>>)

idat_onepix_4488cc ==
    RawChunkData(IMAGE_DATA, <<8, 215, 99, 112, 233, 56, 3, 0, 2, 172, 1, 153>>)

iend == RawChunkData(IMAGE_TRAILER, <<>>)

\* data of a generated chunk: n bytes that differ from one data part to the next
PatternData(n) == [i \in 1..n |-> (i * 31 + i \div 251) % 256]

\* the stream of TestChunkTokenStream.test_iter
MinimalStream == <<ihdr_one_by_one_rgb24, idat_onepix_4488cc, iend>>

SmallChunks ==
    {RawChunkData(c, PatternData(n)) : c \in {IMAGE_DATA, IMAGE_TRAILER}, n \in 0..MaxDataLen}

SmallStreams == UNION {[1..k -> SmallChunks] : k \in 0..MaxChunks}

LongLengths == {k * PNG_CHUNK_MAX_DATA_READ + d : k \in 1..MaxParts, d \in {0, 1}}

LongStreams ==
    {<<ihdr_one_by_one_rgb24, RawChunkData(IMAGE_DATA, PatternData(n)), iend>> : n \in LongLengths}

\* offset of the first data byte of the second chunk of a long stream
LongDataStart == Len(PNG_SIGNATURE) + Len(bytes_with_crc32(ihdr_one_by_one_rgb24)) + 8

NoCall == [method |-> "none", arg |-> 0]

NoDamage == [kind |-> "none", at |-> 0, to |-> 0]

Truncate(k) == [kind |-> "truncate", at |-> k, to |-> 0]

Change(i, v) == [kind |-> "change", at |-> i, to |-> v]

Damaged(b, d) ==
    CASE d.kind = "none"     -> b
      [] d.kind = "truncate" -> SubSeq(b, 1, d.at)
      [] d.kind = "change"   -> [b EXCEPT ![d.at] = d.to]

\* the values a changed byte takes: the ends and the middle of the byte range,
\* an upper-case and a lower-case letter
ChangedTo == {0, 1, 65, 97, 128, 255}

\* every truncation of the minimal stream and every change of one of its bytes to
\* a value of ChangedTo; every truncation of a small stream; a few truncations
\* and changes of a long stream
Damages(fakes) ==
    LET whole == Contents(fakes)
        n == Len(whole)
        idat == Len(fakes[2].data)
    IN  IF fakes = MinimalStream
        THEN {NoDamage} \cup {Truncate(k) : k \in 0..(n - 1)}
             \cup UNION {{Change(i, v) : v \in ChangedTo \ {whole[i]}} : i \in 1..n}
        ELSE IF fakes \in LongStreams
        THEN {NoDamage}
             \cup {Truncate(LongDataStart + k) : k \in {1, PNG_CHUNK_MAX_DATA_READ, idat - 1, idat + 2}}
             \cup {Change(LongDataStart + k, 0) : k \in {idat}}
        ELSE {NoDamage} \cup {Truncate(k) : k \in 0..(n - 1)}

\* byte sources for direct method calls, as the tests pass them
CallContents ==
    {<<>>, <<49, 50, 51, 52>>, PNG_SIGNATURE, <<49, 50, 51, 52, 53, 54, 55, 56, 57>>,
     bytes_with_crc32(iend), Tail(bytes_with_crc32(iend)),
     Tail(bytes_with_crc32(RawChunkData(IMAGE_DATA, PatternData(MaxDataLen)))),
     <<0, 0, 0>>}

(***************************************************************************)
(* The token stream: construction, the steps of __iter__, direct calls.    *)
(***************************************************************************)
SetSelf(o) ==
    /\ stream' = o.stream
    /\ stream_pos' = o.stream_pos
    /\ stream_reads' = o.stream_reads
    /\ total_bytes_read' = o.total_bytes_read
    /\ chunk_state' = o.chunk_state

\* no chunk parser and no image data routine takes part
NotApplied == [kind |-> "none"]

NothingApplied == input = NotApplied /\ result = NotApplied

\* ChunkOrderParser(), no call made yet
NewChunkOrderParser ==
    /\ order_state = "before_header"
    /\ nseen = [c \in CODE_TO_CHUNK_TYPE \cup UnknownCodes |-> 0]
    /\ passed = [c \in CODE_TO_CHUNK_TYPE \cup UnknownCodes |-> 0]
    /\ accepted = {}
    /\ order_last = <<>>
    /\ order_raised = "none"
    /\ order_calls = 0

OrderParserIdle == NewChunkOrderParser /\ codes = <<>>

\* ChunkTokenStream(io.BytesIO(contents)), about to be iterated
InitIter ==
    \E fakes \in {MinimalStream} \cup SmallStreams \cup LongStreams :
        \E d \in Damages(fakes) :
            /\ contents = Damaged(Contents(fakes), d)
            /\ stream = contents
            /\ last_call = NoCall
            /\ fake_chunks = fakes
            /\ damage = d
            /\ stream_pos = 0
            /\ stream_reads = 0
            /\ total_bytes_read = 0
            /\ chunk_state = <<>>
            /\ pc = "signature"
            /\ initial = <<>>
            /\ tokens = <<>>
            /\ raised = "none"
            /\ ncalls = 0

\* a token stream whose methods are called one by one, as the tests do; it may
\* already have read up to the byte budget (by earlier _read calls)
InitCalls ==
    \E c \in CallContents :
        \E already \in {0} \cup ((PNG_MAX_FILE_SIZE - NearLimit)..PNG_MAX_FILE_SIZE) :
            /\ contents = c
            /\ stream = c
            /\ last_call = NoCall
            /\ fake_chunks = <<>>
            /\ damage = NoDamage
            /\ stream_pos = already
            /\ stream_reads = 0
            /\ total_bytes_read = already
            /\ chunk_state = <<>>
            /\ pc = "calls"
            /\ initial = <<>>
            /\ tokens = <<>>
            /\ raised = "none"
            /\ ncalls = 0

Init == (InitIter \/ InitCalls) /\ OrderParserIdle /\ NothingApplied

\* the exception leaves the generator: the iteration is over
IterRaise(exc) ==
    /\ pc' = "done"
    /\ raised' = exc
    /\ UNCHANGED <<initial, tokens>>

\* __iter__, line 68
IterValidateSignature ==
    /\ pc = "signature"
    /\ \E r \in {_validate_signature(Self)} :
           /\ SetSelf(r.o)
           /\ IF r.exc # "none"
              THEN IterRaise(r.exc)
              ELSE pc' = "boundary" /\ UNCHANGED <<initial, tokens, raised>>
    /\ UNCHANGED <<ncalls, last_call, contents, fake_chunks, damage, order_vars, apply_vars>>

\* a variant that goes round the loop again when the one-byte read meets the end of file
IterDetectEOFRetrying ==
    /\ pc = "boundary"
    /\ LET r == _read(Self, 1)
       IN  /\ SetSelf(r.o)
           /\ IF r.exc = "UnexpectedEOF"
              THEN pc' = "boundary" /\ UNCHANGED <<initial, tokens, raised>>
              ELSE IF r.exc # "none"
              THEN IterRaise(r.exc)
              ELSE pc' = "head" /\ initial' = r.ret /\ UNCHANGED <<tokens, raised>>
    /\ UNCHANGED <<ncalls, last_call, contents, fake_chunks, damage, order_vars, apply_vars>>

\* __iter__, lines 71-76: one byte is read; UnexpectedEOF here ends the iteration cleanly
IterDetectEOF ==
    /\ pc = "boundary"
    /\ \E r \in {_read(Self, 1)} :
           /\ SetSelf(r.o)
           /\ IF r.exc = "UnexpectedEOF"
              THEN pc' = "done" /\ UNCHANGED <<initial, tokens, raised>>
              ELSE IF r.exc # "none"
              THEN IterRaise(r.exc)
              ELSE pc' = "head" /\ initial' = r.ret /\ UNCHANGED <<tokens, raised>>
    /\ UNCHANGED <<ncalls, last_call, contents, fake_chunks, damage, order_vars, apply_vars>>

\* a variant that takes an end of file inside the chunk head for the end of the stream
IterHeadEndingQuietly ==
    /\ pc = "head"
    /\ LET r == _get_chunk_head(Self, initial)
       IN  /\ SetSelf(r.o)
           /\ IF r.exc = "UnexpectedEOF"
              THEN pc' = "done" /\ UNCHANGED <<initial, tokens, raised>>
              ELSE IF r.exc # "none"
              THEN IterRaise(r.exc)
              ELSE /\ tokens' = Append(tokens, r.ret)
                   /\ pc' = "data"
                   /\ UNCHANGED <<initial, raised>>
    /\ UNCHANGED <<ncalls, last_call, contents, fake_chunks, damage, order_vars, apply_vars>>

\* __iter__, lines 78-79
IterHead ==
    /\ pc = "head"
    /\ \E r \in {_get_chunk_head(Self, initial)} :
           /\ SetSelf(r.o)
           /\ IF r.exc # "none"
              THEN IterRaise(r.exc)
              ELSE /\ tokens' = Append(tokens, r.ret)
                   /\ pc' = "data"
                   /\ UNCHANGED <<initial, raised>>
    /\ UNCHANGED <<ncalls, last_call, contents, fake_chunks, damage, order_vars, apply_vars>>

\* __iter__, lines 80-81
IterData ==
    /\ pc = "data"
    /\ chunk_state[1].next_read > 0
    /\ \E r \in {_get_chunk_data(Self)} :
           /\ SetSelf(r.o)
           /\ IF r.exc # "none"
              THEN IterRaise(r.exc)
              ELSE /\ tokens' = Append(tokens, r.ret)
                   /\ UNCHANGED <<pc, initial, raised>>
    /\ UNCHANGED <<ncalls, last_call, contents, fake_chunks, damage, order_vars, apply_vars>>

\* a variant that yields the End token whatever its crc32ok (as decoder.py does)
IterEndIgnoringCRC ==
    /\ pc = "data"
    /\ ~(chunk_state[1].next_read > 0)
    /\ LET r == _get_chunk_end(Self)
       IN  /\ SetSelf(r.o)
           /\ IF r.exc # "none"
              THEN IterRaise(r.exc)
              ELSE /\ tokens' = Append(tokens, r.ret)
                   /\ pc' = "boundary"
                   /\ UNCHANGED <<initial, raised>>
    /\ UNCHANGED <<ncalls, last_call, contents, fake_chunks, damage, order_vars, apply_vars>>

\* a variant that yields the End token before it looks at crc32ok
IterEndYieldingFirst ==
    /\ pc = "data"
    /\ ~(chunk_state[1].next_read > 0)
    /\ LET r == _get_chunk_end(Self)
       IN  /\ SetSelf(r.o)
           /\ IF r.exc # "none"
              THEN IterRaise(r.exc)
              ELSE /\ tokens' = Append(tokens, r.ret)
                   /\ pc' = IF r.ret.crc32ok THEN "boundary" ELSE "done"
                   /\ raised' = IF r.ret.crc32ok THEN raised ELSE "BadCRC"
                   /\ UNCHANGED initial
    /\ UNCHANGED <<ncalls, last_call, contents, fake_chunks, damage, order_vars, apply_vars>>

\* __iter__, lines 82-89
IterEnd ==
    /\ pc = "data"
    /\ ~(chunk_state[1].next_read > 0)
    /\ \E r \in {_get_chunk_end(Self)} :
           /\ SetSelf(r.o)
           /\ IF r.exc # "none"
              THEN IterRaise(r.exc)
              ELSE IF ~r.ret.crc32ok
              THEN IterRaise("BadCRC")
              ELSE /\ tokens' = Append(tokens, r.ret)
                   /\ pc' = "boundary"
                   /\ UNCHANGED <<initial, raised>>
    /\ UNCHANGED <<ncalls, last_call, contents, fake_chunks, damage, order_vars, apply_vars>>

\* a method called directly: the object changes as the method leaves it, the
\* exception (if any) reaches the caller, a returned token is recorded
Called(method, arg, r, token) ==
    /\ pc = "calls"
    /\ ncalls < MaxCalls
    /\ ncalls' = ncalls + 1
    /\ last_call' = [method |-> method, arg |-> arg]
    /\ SetSelf(r.o)
    /\ raised' = r.exc
    /\ tokens' = IF token /\ r.exc = "none" THEN Append(tokens, r.ret) ELSE tokens
    /\ UNCHANGED <<pc, initial, contents, fake_chunks, damage, order_vars, apply_vars>>

CallRead == \E length \in 0..MaxReadArg : Called("_read", length, _read(Self, length), FALSE)

CallValidateSignature == Called("_validate_signature", 0, _validate_signature(Self), FALSE)

CallGetChunkHead == \E b \in {0, 128} : Called("_get_chunk_head", b, _get_chunk_head(Self, <<b>>), TRUE)

CallGetChunkData == Called("_get_chunk_data", 0, _get_chunk_data(Self), TRUE)

CallGetChunkEnd == Called("_get_chunk_end", 0, _get_chunk_end(Self), TRUE)

Next ==
    \/ IterValidateSignature
    \/ IterDetectEOF
    \/ IterHead
    \/ IterData
    \/ IterEnd
    \/ CallRead
    \/ CallValidateSignature
    \/ CallGetChunkHead
    \/ CallGetChunkData
    \/ CallGetChunkEnd

Spec == Init /\ [][Next]_vars

(***************************************************************************)
(* A token stream that is iterated to the end: the consumer asks for the   *)
(* next token until the generator returns or raises, so every step of      *)
(* __iter__ that can be taken is taken.                                    *)
(***************************************************************************)
\* ChunkTokenStream(io.BytesIO(contents)) for each stream of InitIter
IterInit == InitIter /\ OrderParserIdle /\ NothingApplied

IterNext ==
    \/ IterValidateSignature
    \/ IterDetectEOF
    \/ IterHead
    \/ IterData
    \/ IterEnd

IterSpec == IterInit /\ [][IterNext]_vars /\ WF_vars(IterNext)

(***************************************************************************)
(* chunk_order_parser.py: the classes of chunk codes, the transition maps, *)
(* the occurrence counter, validate and validate_end.                      *)
(***************************************************************************)
_CRITICAL_CHUNK_CODES == {IMAGE_HEADER, PALETTE, IMAGE_DATA, IMAGE_TRAILER}

_BEFORE_PALETTE ==
    {PRIMARY_CHROMATICITIES, IMAGE_GAMMA, EMBEDDED_ICC_PROFILE, SIGNIFICANT_BITS,
     STANDARD_RGB_COLOR_SPACE}

_AFTER_PALETTE_BEFORE_DATA == {BACKGROUND_COLOR, PALETTE_HISTOGRAM, TRANSPARENCY}

_BEFORE_DATA == {PHYSICAL_PIXEL_DIMENSIONS, SUGGESTED_PALETTE}

_ALLOWED_ANYWHERE ==
    {IMAGE_LAST_MODIFICATION_TIME, INTERNATIONAL_TEXTUAL_DATA, TEXTUAL_DATA,
     COMPRESSED_TEXTUAL_DATA}

_KNOWN_CHUNKS ==
    _CRITICAL_CHUNK_CODES \cup _BEFORE_PALETTE \cup _AFTER_PALETTE_BEFORE_DATA
    \cup _BEFORE_DATA \cup _ALLOWED_ANYWHERE

_ChunkOrderState ==
    {"before_header", "before_palette", "after_palette_before_data", "during_data",
     "after_data", "after_trailer"}

\* _ChunkOrderStateTransitionMap(): _map is a function from codes to states,
\* _unknown_chunk_next_state is "None" or a state
_ChunkOrderStateTransitionMap == [_map |-> <<>>, _unknown_chunk_next_state |-> "None"]

\* add_one_transition; the ValueError for a code already in the map leaves the map as it is
add_one_transition(m, next_state, chunk_code) ==
    IF chunk_code \in DOMAIN m._map THEN m
    ELSE [m EXCEPT !._map = [c \in DOMAIN m._map \cup {chunk_code} |->
                                IF c = chunk_code THEN next_state ELSE m._map[c]]]

\* add_transitions: add_one_transition for every code of the sets (here: of their union)
RECURSIVE add_transitions(_, _, _)
add_transitions(m, next_state, chunk_codes) ==
    IF chunk_codes = {} THEN m
    ELSE LET chunk_code == CHOOSE c \in chunk_codes : TRUE
         IN  add_transitions(add_one_transition(m, next_state, chunk_code), next_state,
                             chunk_codes \ {chunk_code})

\* a variant that leaves the map without an unknown-chunk state
set_unknown_chunk_next_state_dropped(m, next_state) == m

set_unknown_chunk_next_state(m, next_state) ==
    [m EXCEPT !._unknown_chunk_next_state = next_state]

\* a variant that falls back to the unknown-chunk state for every missing key
getitem_any_missing_key(m, key) ==
    IF key \in DOMAIN m._map THEN <<m._map[key]>>
    ELSE IF m._unknown_chunk_next_state = "None" THEN <<>>
    ELSE <<m._unknown_chunk_next_state>>

\* _ChunkOrderStateTransitionMap.__getitem__: <<state>>, or <<>> for KeyError
getitem(m, key) ==
    IF key \in DOMAIN m._map THEN <<m._map[key]>>
    ELSE IF m._unknown_chunk_next_state = "None" \/ key \in _KNOWN_CHUNKS THEN <<>>
    ELSE <<m._unknown_chunk_next_state>>

\* `key in m` of collections.abc.Mapping: m[key] without KeyError (for the plain
\* dict of after_trailer, which is empty: no key is in it)
contains(m, key) == getitem(m, key) # <<>>

\* before_header letting unrecognized codes through
before_header_transitions_passing_unknown ==
    add_one_transition(
        set_unknown_chunk_next_state(_ChunkOrderStateTransitionMap, "before_header"),
        "before_palette", IMAGE_HEADER)

before_header_transitions ==
    add_one_transition(_ChunkOrderStateTransitionMap, "before_palette", IMAGE_HEADER)

\* before_palette seeing the palette again after an ancillary chunk that follows it
before_palette_transitions_palette_late ==
    add_transitions(
        add_one_transition(
            add_one_transition(
                add_transitions(
                    set_unknown_chunk_next_state(_ChunkOrderStateTransitionMap,
                                                 "before_palette"),
                    "before_palette", _BEFORE_PALETTE \cup _BEFORE_DATA \cup _ALLOWED_ANYWHERE),
                "after_palette_before_data", PALETTE),
            "during_data", IMAGE_DATA),
        "before_palette", _AFTER_PALETTE_BEFORE_DATA)

before_palette_transitions ==
    add_one_transition(
        add_one_transition(
            add_transitions(
                add_transitions(
                    set_unknown_chunk_next_state(_ChunkOrderStateTransitionMap,
                                                 "before_palette"),
                    "before_palette",
                    _BEFORE_PALETTE \cup _BEFORE_DATA \cup _ALLOWED_ANYWHERE),
                "after_palette_before_data", _AFTER_PALETTE_BEFORE_DATA),
            "after_palette_before_data", PALETTE),
        "during_data", IMAGE_DATA)

\* after_palette_before_data with a way on to after_trailer
after_palette_before_data_transitions_with_trailer ==
    add_one_transition(
        add_one_transition(
            add_transitions(
                set_unknown_chunk_next_state(_ChunkOrderStateTransitionMap,
                                             "after_palette_before_data"),
                "after_palette_before_data",
                _AFTER_PALETTE_BEFORE_DATA \cup _BEFORE_DATA \cup _ALLOWED_ANYWHERE),
            "during_data", IMAGE_DATA),
        "after_trailer", IMAGE_TRAILER)

after_palette_before_data_transitions ==
    add_one_transition(
        add_transitions(
            set_unknown_chunk_next_state(_ChunkOrderStateTransitionMap,
                                         "after_palette_before_data"),
            "after_palette_before_data",
            _AFTER_PALETTE_BEFORE_DATA \cup _BEFORE_DATA \cup _ALLOWED_ANYWHERE),
        "during_data", IMAGE_DATA)

\* during_data with no way on to after_trailer
during_data_transitions_without_trailer ==
    add_transitions(
        add_one_transition(
            set_unknown_chunk_next_state(_ChunkOrderStateTransitionMap, "after_data"),
            "during_data", IMAGE_DATA),
        "after_data", _ALLOWED_ANYWHERE)

during_data_transitions ==
    add_one_transition(
        add_transitions(
            add_one_transition(
                set_unknown_chunk_next_state(_ChunkOrderStateTransitionMap, "after_data"),
                "during_data", IMAGE_DATA),
            "after_data", _ALLOWED_ANYWHERE),
        "after_trailer", IMAGE_TRAILER)

\* after_data with a way back to during_data
after_data_transitions_resuming_data ==
    add_one_transition(
        add_one_transition(
            add_transitions(
                set_unknown_chunk_next_state(_ChunkOrderStateTransitionMap, "after_data"),
                "after_data", _ALLOWED_ANYWHERE),
            "after_trailer", IMAGE_TRAILER),
        "during_data", IMAGE_DATA)

after_data_transitions ==
    add_one_transition(
        add_transitions(
            set_unknown_chunk_next_state(_ChunkOrderStateTransitionMap, "after_data"),
            "after_data", _ALLOWED_ANYWHERE),
        "after_trailer", IMAGE_TRAILER)

\* _transitions whose after_trailer entry lets unrecognized codes through
_transitions_open_after_trailer ==
    [s \in _ChunkOrderState |->
        CASE s = "before_header"             -> before_header_transitions
          [] s = "before_palette"            -> before_palette_transitions
          [] s = "after_palette_before_data" -> after_palette_before_data_transitions
          [] s = "during_data"               -> during_data_transitions
          [] s = "after_data"                -> after_data_transitions
          [] s = "after_trailer"             ->
                set_unknown_chunk_next_state(_ChunkOrderStateTransitionMap, "after_trailer")]

\* ChunkOrderParser._transitions
_transitions ==
    [s \in _ChunkOrderState |->
        CASE s = "before_header"             -> before_header_transitions
          [] s = "before_palette"            -> before_palette_transitions
          [] s = "after_palette_before_data" -> after_palette_before_data_transitions
          [] s = "during_data"               -> during_data_transitions
          [] s = "after_data"                -> after_data_transitions
          [] s = "after_trailer"             -> _ChunkOrderStateTransitionMap]

_multiple_allowed ==
    {IMAGE_DATA, SUGGESTED_PALETTE, INTERNATIONAL_TEXTUAL_DATA, TEXTUAL_DATA,
     COMPRESSED_TEXTUAL_DATA}

\* check that counts the code before it looks at the count
check_counting_rejected(n, chunk_code) ==
    LET counted == [n EXCEPT ![chunk_code] = @ + 1]
    IN  IF n[chunk_code] >= 1 /\ chunk_code \notin _multiple_allowed /\ chunk_code \in _KNOWN_CHUNKS
        THEN [nseen |-> counted, exc |-> "PNGSyntaxError"]
        ELSE [nseen |-> counted, exc |-> "none"]

\* check without the test that the code is a known one
check_counting_unknown(n, chunk_code) ==
    IF n[chunk_code] >= 1 /\ chunk_code \notin _multiple_allowed
    THEN [nseen |-> n, exc |-> "PNGSyntaxError"]
    ELSE [nseen |-> [n EXCEPT ![chunk_code] = @ + 1], exc |-> "none"]

\* _ChunkCountValidator.check: the counter afterwards and the exception raised
check(n, chunk_code) ==
    LET seen_and_multiple_disallowed ==
            /\ n[chunk_code] >= 1
            /\ chunk_code \notin _multiple_allowed
            /\ chunk_code \in _KNOWN_CHUNKS
    IN  IF seen_and_multiple_disallowed
        THEN [nseen |-> n, exc |-> "PNGSyntaxError"]
        ELSE [nseen |-> [n EXCEPT ![chunk_code] = @ + 1], exc |-> "none"]

\* validate without the count check
validate_uncounted(state, n, chunk_code) ==
    LET available_transitions == _transitions[state]
    IN  IF ~contains(available_transitions, chunk_code)
        THEN [state |-> state, nseen |-> n, exc |-> "PNGSyntaxError"]
        ELSE [state |-> getitem(available_transitions, chunk_code)[1],
              nseen |-> n, exc |-> "none"]

\* ChunkOrderParser.validate: the parser's state and counter afterwards, the exception raised
validate(state, n, chunk_code) ==
    LET counted == check(n, chunk_code)
        available_transitions == _transitions[state]
    IN  IF counted.exc # "none"
        THEN [state |-> state, nseen |-> counted.nseen, exc |-> counted.exc]
        ELSE IF ~contains(available_transitions, chunk_code)
        THEN [state |-> state, nseen |-> counted.nseen, exc |-> "PNGSyntaxError"]
        ELSE [state |-> getitem(available_transitions, chunk_code)[1],
              nseen |-> counted.nseen, exc |-> "none"]

\* validate_end with no check
validate_end_unchecked(state) == "none"

\* ChunkOrderParser.validate_end: the exception raised
validate_end(state) == IF state # "after_trailer" THEN "PNGSyntaxError" ELSE "none"

\* no token stream takes part
NoTokenStream ==
    /\ contents = <<>>
    /\ stream = <<>>
    /\ last_call = NoCall
    /\ fake_chunks = <<>>
    /\ damage = NoDamage
    /\ stream_pos = 0
    /\ stream_reads = 0
    /\ total_bytes_read = 0
    /\ chunk_state = <<>>
    /\ pc = "none"
    /\ initial = <<>>
    /\ tokens = <<>>
    /\ raised = "none"
    /\ ncalls = 0

\* ChunkOrderParser()
OrderInit == OrderParserIdle /\ NoTokenStream /\ NothingApplied

\* validate(chunk_code), for each known code and for codes outside the registry
Validate ==
    \E chunk_code \in CODE_TO_CHUNK_TYPE \cup UnknownCodes :
        /\ order_calls < MaxValidateCalls
        /\ LET r == validate(order_state, nseen, chunk_code)
           IN  /\ order_state' = r.state
               /\ nseen' = r.nseen
               /\ order_raised' = r.exc
               /\ accepted' = IF r.exc = "none" THEN accepted \cup {chunk_code} ELSE accepted
        /\ order_last' = chunk_code
        /\ order_calls' = order_calls + 1
        /\ passed' = [passed EXCEPT ![chunk_code] = @ + 1]
        /\ UNCHANGED <<codes, lexer_vars, apply_vars>>

ValidateEnd ==
    /\ order_calls < MaxValidateCalls
    /\ order_raised' = validate_end(order_state)
    /\ order_last' = <<>>
    /\ order_calls' = order_calls + 1
    /\ UNCHANGED <<order_state, nseen, passed, accepted, codes>>
    /\ UNCHANGED <<lexer_vars, apply_vars>>

OrderNext ==
    \/ Validate
    \/ ValidateEnd

OrderSpec == OrderInit /\ [][OrderNext]_vars

(***************************************************************************)
(* A parser fed one code sequence, as the tests feed it: validate for each *)
(* code in turn, then validate_end; the first exception ends the run.      *)
(***************************************************************************)
\* the critical codes, a code or two of every class of ancillary codes (of those
\* allowed once and of those allowed many times), and an unrecognized code
SequenceCodes ==
    {IMAGE_HEADER, PALETTE, IMAGE_DATA, IMAGE_TRAILER, IMAGE_GAMMA, TRANSPARENCY,
     SUGGESTED_PALETTE, IMAGE_LAST_MODIFICATION_TIME, TEXTUAL_DATA, <<117, 107, 119, 110>>}

CodeSequences == UNION {[1..k -> SequenceCodes] : k \in 0..MaxSequenceLen}

SequenceInit ==
    /\ NewChunkOrderParser
    /\ NoTokenStream
    /\ NothingApplied
    /\ codes \in CodeSequences

\* for chunk_code in chunk_codes: chunk_order_parser.validate(chunk_code)
FeedValidate ==
    /\ order_raised = "none"
    /\ order_calls < Len(codes)
    /\ LET chunk_code == codes[order_calls + 1]
           r == validate(order_state, nseen, chunk_code)
       IN  /\ order_state' = r.state
           /\ nseen' = r.nseen
           /\ order_raised' = r.exc
           /\ accepted' = IF r.exc = "none" THEN accepted \cup {chunk_code} ELSE accepted
           /\ order_last' = chunk_code
           /\ passed' = [passed EXCEPT ![chunk_code] = @ + 1]
    /\ order_calls' = order_calls + 1
    /\ UNCHANGED <<codes, lexer_vars, apply_vars>>

\* chunk_order_parser.validate_end(), after the last code
FeedValidateEnd ==
    /\ order_raised = "none"
    /\ order_calls = Len(codes)
    /\ order_raised' = validate_end(order_state)
    /\ order_last' = <<>>
    /\ order_calls' = order_calls + 1
    /\ UNCHANGED <<order_state, nseen, passed, accepted, codes>>
    /\ UNCHANGED <<lexer_vars, apply_vars>>

SequenceNext ==
    \/ FeedValidate
    \/ FeedValidateEnd

SequenceSpec == SequenceInit /\ [][SequenceNext]_vars

(***************************************************************************)
(* fieldvalues.py and chunk_parsers.py.  A Python value that is compared   *)
(* with the members of an enumeration is [type, value]: an int has type    *)
(* "int", a member of an enum.Enum the name of its enumeration, and two    *)
(* values are equal when both parts are (a member of a plain enum.Enum     *)
(* equals no int).  A parse returns [kind, exc, ret].                      *)
(***************************************************************************)
PyInt(n) == [type |-> "int", value |-> n]

EnumMember(enumeration, value) == [type |-> enumeration, value |-> value]

ColorType == {EnumMember("ColorType", v) : v \in {0, 2, 3, 4, 6}}

grayscale == EnumMember("ColorType", 0)

rgb == EnumMember("ColorType", 2)

indexed == EnumMember("ColorType", 3)

grayscale_alpha == EnumMember("ColorType", 4)

rgb_alpha == EnumMember("ColorType", 6)

CompressionMethod == {EnumMember("CompressionMethod", 0)}

FilterMethod == {EnumMember("FilterMethod", 0)}

InterlaceMethod == {EnumMember("InterlaceMethod", v) : v \in {0, 1}}

Parsed(ret) == [kind |-> "parsed", exc |-> "none", ret |-> ret]

ParseError(exc) == [kind |-> "parsed", exc |-> exc, ret |-> <<>>]

\* a variant that looks the value up among the members' values
_parse_value_to_enum_member_by_value(enumeration, value) ==
    IF \A m \in enumeration : m.value # value.value
    THEN ParseError("PNGSyntaxError")
    ELSE Parsed(CHOOSE m \in enumeration : m.value = value.value)

\* _AbstractLimitedLengthChunkParser._parse_value_to_enum_member: `value not in
\* enumeration.__members__.values()` compares the value with the members
_parse_value_to_enum_member(enumeration, value) ==
    IF value \notin enumeration
    THEN ParseError("PNGSyntaxError")
    ELSE Parsed(CHOOSE m \in enumeration : m.value = value.value)

PNG_MAX_HEIGHT == PNG_MAX_CHUNK_LENGTH    \* 2**31 - 1

PNG_MIN_WIDTH == 1

_FIELD_STRUCT_size == 13

_ALLOWED_BIT_DEPTHS == {1, 2, 4, 8, 16}

_COLOR_TYPE_BIT_DEPTHS ==
    [c \in ColorType |->
        CASE c = grayscale       -> {1, 2, 4, 8, 16}
          [] c = rgb             -> {8, 16}
          [] c = indexed         -> {1, 2, 4, 8}
          [] c = grayscale_alpha -> {8, 16}
          [] c = rgb_alpha       -> {8, 16}]

\* models.ImageHeader(...): the seven fields, width and height as integers
ImageHeader(width, height, bit_depth, color_type, compression_method, filter_method, interlace_method) ==
    [width |-> width, height |-> height, bit_depth |-> bit_depth, color_type |-> color_type,
     compression_method |-> compression_method, filter_method |-> filter_method,
     interlace_method |-> interlace_method]

\* _ImageHeaderChunkParser.parse
ImageHeaderParse(data_token) ==
    IF Len(data_token) # _FIELD_STRUCT_size THEN ParseError("PNGSyntaxError")
    ELSE
    LET width  == UnpackU32(SubSeq(data_token, 1, 4))
        height == UnpackU32(SubSeq(data_token, 5, 8))
        bit_depth == data_token[9]
        max == U32FromInt(PNG_MAX_HEIGHT)
        min == U32FromInt(PNG_MIN_WIDTH)
    IN  IF U32Gt(width, max) \/ U32Gt(height, max) THEN ParseError("PNGSyntaxError")
        ELSE IF U32Gt(min, width) \/ U32Gt(min, height) THEN ParseError("PNGSyntaxError")
        ELSE IF bit_depth \notin _ALLOWED_BIT_DEPTHS THEN ParseError("PNGSyntaxError")
        ELSE
        LET color_type == _parse_value_to_enum_member(ColorType, PyInt(data_token[10]))
        IN  IF color_type.exc # "none" THEN color_type
            ELSE IF bit_depth \notin _COLOR_TYPE_BIT_DEPTHS[color_type.ret]
            THEN ParseError("PNGSyntaxError")
            ELSE
            LET compression_method ==
                    _parse_value_to_enum_member(CompressionMethod, PyInt(data_token[11]))
            IN  IF compression_method.exc # "none" THEN compression_method
                ELSE
                LET filter_method ==
                        _parse_value_to_enum_member(FilterMethod, PyInt(data_token[12]))
                IN  IF filter_method.exc # "none" THEN filter_method
                    ELSE
                    LET interlace_method ==
                            _parse_value_to_enum_member(InterlaceMethod, PyInt(data_token[13]))
                    IN  IF interlace_method.exc # "none" THEN interlace_method
                        ELSE Parsed(ImageHeader(U32ToInt(width), U32ToInt(height), bit_depth,
                                                color_type.ret, compression_method.ret,
                                                filter_method.ret, interlace_method.ret))

(***************************************************************************)
(* A chunk parser applied to one data token.                               *)
(***************************************************************************)
\* widths and heights, as the four bytes that hold them: 0, 1, 2^31 - 1, 2^31, 2^32 - 1
HeaderWords ==
    {<<0, 0, 0, 0>>, <<0, 0, 0, 1>>, <<127, 255, 255, 255>>, <<128, 0, 0, 0>>,
     <<255, 255, 255, 255>>}

HeaderBitDepths == {0, 1, 2, 3, 4, 8, 16, 32}

HeaderColorTypes == 0..7

\* the 13-byte payloads over those field values, and payloads of every other length up to 14
ImageHeaderPayloads ==
    {w \o h \o <<bd, ct, cm, fm, im>> :
        w \in HeaderWords, h \in HeaderWords, bd \in HeaderBitDepths, ct \in HeaderColorTypes,
        cm \in 0..MaxMethod, fm \in 0..MaxMethod, im \in 0..MaxMethod}
    \cup {SubSeq(ihdr_one_by_one_rgb24.data, 1, k) : k \in 0..12}
    \cup {ihdr_one_by_one_rgb24.data \o <<0>>}

ImageHeaderInputs == {[kind |-> "IHDR", data_token |-> d] : d \in ImageHeaderPayloads}

\* _ImageHeaderChunkParser(data_token, antecedent).parse()
ParseImageHeader ==
    /\ input.kind = "IHDR"
    /\ result = NotApplied
    /\ result' = ImageHeaderParse(input.data_token)
    /\ UNCHANGED <<input, lexer_vars, order_vars>>

(***************************************************************************)
(* chunk_parsers.py: the PLTE parser.  The antecedent holds the image      *)
(* header parsed before (color_type, bit_depth) and the palette, None      *)
(* while there is none.                                                    *)
(***************************************************************************)
None == [type |-> "NoneType"]

Antecedent(color_type, bit_depth) ==
    [image_header |-> [color_type |-> color_type, bit_depth |-> bit_depth], palette |-> None]

_PROHIBITED_WITH_COLOR_TYPE == {grayscale, grayscale_alpha}

\* iterator = iter(data); list(zip(iterator, iterator, iterator))
_parse_palette(data_token) ==
    [i \in 1..(Len(data_token) \div 3) |->
        <<data_token[3 * i - 2], data_token[3 * i - 1], data_token[3 * i]>>]

\* models.Palette(rgb_tuples)
Palette(rgb_tuples) == [palette |-> rgb_tuples]

\* a variant that does not limit the palette of an indexed image by its bit depth
PaletteParse_unlimited_by_bit_depth(data_token, antecedent) ==
    LET length == Len(data_token)
        color_type == antecedent.image_header.color_type
    IN  IF length < 3 THEN ParseError("PNGSyntaxError")
        ELSE IF length % 3 # 0 THEN ParseError("PNGSyntaxError")
        ELSE IF length \div 3 > 256 THEN ParseError("PNGSyntaxError")
        ELSE IF color_type \in _PROHIBITED_WITH_COLOR_TYPE THEN ParseError("PNGSyntaxError")
        ELSE Parsed(Palette(_parse_palette(data_token)))

\* _PaletteChunkParser.parse: _validate_length, _validate_palette_chunk_allowed, _parse_palette
PaletteParse(data_token, antecedent) ==
    LET length == Len(data_token)
        color_type == antecedent.image_header.color_type
        maximum_size == (2 ^ antecedent.image_header.bit_depth) * 3
    IN  IF length < 3 THEN ParseError("PNGSyntaxError")
        ELSE IF length % 3 # 0 THEN ParseError("PNGSyntaxError")
        ELSE IF length \div 3 > 256 THEN ParseError("PNGSyntaxError")
        ELSE IF color_type = indexed /\ length > maximum_size THEN ParseError("PNGSyntaxError")
        ELSE IF color_type \in _PROHIBITED_WITH_COLOR_TYPE THEN ParseError("PNGSyntaxError")
        ELSE Parsed(Palette(_parse_palette(data_token)))

\* the antecedents an accepted image header leaves
Antecedents ==
    {Antecedent(c, b) : c \in ColorType, b \in _ALLOWED_BIT_DEPTHS} \cap
    {a \in [image_header : [color_type : ColorType, bit_depth : _ALLOWED_BIT_DEPTHS],
            palette : {None}] :
        a.image_header.bit_depth \in _COLOR_TYPE_BIT_DEPTHS[a.image_header.color_type]}

\* a PLTE payload of n bytes with each antecedent
PaletteInputs(n) ==
    {[kind |-> "PLTE", data_token |-> PatternData(n), antecedent |-> a] : a \in Antecedents}

\* _PaletteChunkParser(data_token, antecedent).parse()
ParsePalette ==
    /\ input.kind = "PLTE"
    /\ result = NotApplied
    /\ result' = PaletteParse(input.data_token, input.antecedent)
    /\ UNCHANGED <<input, lexer_vars, order_vars>>

ChunkParserInit ==
    /\ OrderParserIdle
    /\ NoTokenStream
    /\ \/ input \in ImageHeaderInputs
       \/ \E n \in 0..MaxPaletteLen : input \in PaletteInputs(n)
    /\ result = NotApplied

ChunkParserNext ==
    \/ ParseImageHeader
    \/ ParsePalette

ChunkParserSpec == ChunkParserInit /\ [][ChunkParserNext]_vars

(***************************************************************************)
(* The decode of one image, as far as parser.py and chunk_order_parser.py  *)
(* carry it: PNGParser holds a token stream and a ChunkOrderParser, and    *)
(* the order parser is given the code of each chunk of the image in turn.  *)
(* The image is its header's color type and bit depth and the codes of its *)
(* chunks.  _ImageDataChunkParser is not registered and no code calls its  *)
(* _validate_palette_exists_if_necessary.                                  *)
(***************************************************************************)
\* _ImageDataChunkParser._validate_palette_exists_if_necessary
_validate_palette_exists_if_necessary(antecedent) ==
    IF antecedent.image_header.color_type = indexed /\ antecedent.palette = None
    THEN "PNGSyntaxError"
    ELSE "none"

DecodeCodes == {IMAGE_HEADER, PALETTE, IMAGE_DATA, IMAGE_TRAILER}

DecodeSequences == UNION {[1..k -> DecodeCodes] : k \in 0..MaxDecodeLen}

DecodeInit ==
    /\ NewChunkOrderParser
    /\ NoTokenStream
    /\ codes \in DecodeSequences
    /\ input \in {[kind |-> "image", antecedent |-> a] : a \in Antecedents}
    /\ result = NotApplied

\* a decode that makes the check of _ImageDataChunkParser when the first IDAT is validated
FeedValidate_requiring_palette ==
    /\ order_raised = "none"
    /\ order_calls < Len(codes)
    /\ LET chunk_code == codes[order_calls + 1]
           r == validate(order_state, nseen, chunk_code)
           antecedent == [input.antecedent EXCEPT !.palette =
                             IF PALETTE \in accepted THEN Palette(<<<<0, 0, 0>>>>) ELSE None]
           exc == IF r.exc = "none" /\ chunk_code = IMAGE_DATA /\ IMAGE_DATA \notin accepted
                  THEN _validate_palette_exists_if_necessary(antecedent)
                  ELSE r.exc
       IN  /\ order_state' = r.state
           /\ nseen' = r.nseen
           /\ order_raised' = exc
           /\ accepted' = IF exc = "none" THEN accepted \cup {chunk_code} ELSE accepted
           /\ order_last' = chunk_code
           /\ passed' = [passed EXCEPT ![chunk_code] = @ + 1]
    /\ order_calls' = order_calls + 1
    /\ UNCHANGED <<codes, lexer_vars, apply_vars>>

DecodeNext ==
    \/ FeedValidate
    \/ FeedValidateEnd

DecodeSpec == DecodeInit /\ [][DecodeNext]_vars

(***************************************************************************)
(* image_data_parser.py: the pixel locators.  A locator is a generator     *)
(* that yields one iterator of (x, y) coordinates per pass; here it is the *)
(* sequence of its passes, each the sequence of the coordinates its        *)
(* iterator yields.                                                        *)
(***************************************************************************)
\* range(start, stop, step), for a positive step
range(start, stop, step) ==
    IF stop <= start THEN <<>>
    ELSE [i \in 1..((stop - start + step - 1) \div step) |-> start + (i - 1) * step]

\* a product in which the first argument advances fastest
product_first_fastest(xs, ys) ==
    [i \in 1..(Len(xs) * Len(ys)) |->
        <<xs[((i - 1) % Len(xs)) + 1], ys[((i - 1) \div Len(xs)) + 1]>>]

\* itertools.product(xs, ys): the rightmost argument advances fastest
product(xs, ys) ==
    [i \in 1..(Len(xs) * Len(ys)) |->
        <<xs[((i - 1) \div Len(ys)) + 1], ys[((i - 1) % Len(ys)) + 1]>>]

_no_deinterlace_pixel_coordinates(width, height) ==
    <<product(range(0, width, 1), range(0, height, 1))>>

\* a variant whose second pass starts at the column of the fourth pass
_adam7_deinterlace_pixel_coordinates_second_pass_early(width, height) ==
    <<product(range(0, width, 8), range(0, height, 8)),
      product(range(2, width, 8), range(0, height, 8)),
      product(range(0, width, 4), range(4, height, 8)),
      product(range(2, width, 4), range(0, height, 4)),
      product(range(0, width, 2), range(2, height, 4)),
      product(range(1, width, 2), range(0, height, 2)),
      product(range(0, width, 1), range(1, height, 2))>>

_adam7_deinterlace_pixel_coordinates(width, height) ==
    <<product(range(0, width, 8), range(0, height, 8)),
      product(range(4, width, 8), range(0, height, 8)),
      product(range(0, width, 4), range(4, height, 8)),
      product(range(2, width, 4), range(0, height, 4)),
      product(range(0, width, 2), range(2, height, 4)),
      product(range(1, width, 2), range(0, height, 2)),
      product(range(0, width, 1), range(1, height, 2))>>

none == EnumMember("InterlaceMethod", 0)

adam7 == EnumMember("InterlaceMethod", 1)

\* the width, height and interlace method of an image header
LocatorInputs ==
    {[kind |-> "locator", width |-> w, height |-> h, interlace_method |-> m] :
        w \in 1..MaxWidth, h \in 1..MaxHeight, m \in InterlaceMethod}

LocatorInit ==
    /\ OrderParserIdle
    /\ NoTokenStream
    /\ input \in LocatorInputs
    /\ result = NotApplied

\* from_image_header with interlace method none, and the locator run to its end
LocateNoDeinterlace ==
    /\ input.interlace_method = none
    /\ result = NotApplied
    /\ result' = Parsed(_no_deinterlace_pixel_coordinates(input.width, input.height))
    /\ UNCHANGED <<input, lexer_vars, order_vars>>

\* from_image_header with interlace method adam7, and the locator run to its end
LocateAdam7 ==
    /\ input.interlace_method = adam7
    /\ result = NotApplied
    /\ result' = Parsed(_adam7_deinterlace_pixel_coordinates(input.width, input.height))
    /\ UNCHANGED <<input, lexer_vars, order_vars>>

LocatorNext ==
    \/ LocateNoDeinterlace
    \/ LocateAdam7

LocatorSpec == LocatorInit /\ [][LocatorNext]_vars

(***************************************************************************)
(* tests/test_image_data_parser.py: the order expected of the Adam7        *)
(* locator, built from the grid of the standard.                           *)
(***************************************************************************)
ADAM7_INTERLACE_PASSGRID ==
    <<<<1, 6, 4, 6, 2, 6, 4, 6>>,
      <<7, 7, 7, 7, 7, 7, 7, 7>>,
      <<5, 6, 5, 6, 5, 6, 5, 6>>,
      <<7, 7, 7, 7, 7, 7, 7, 7>>,
      <<3, 6, 4, 6, 3, 6, 4, 6>>,
      <<7, 7, 7, 7, 7, 7, 7, 7>>,
      <<5, 6, 5, 6, 5, 6, 5, 6>>,
      <<7, 7, 7, 7, 7, 7, 7, 7>>>>

\* the order of tuples (pass number, xcoord, ycoord) that list.sort() goes by
TupleLess(a, b) ==
    \/ a[1] < b[1]
    \/ a[1] = b[1] /\ a[2] < b[2]
    \/ a[1] = b[1] /\ a[2] = b[2] /\ a[3] < b[3]

\* the tuples (pass number, xcoord, ycoord) of every pixel, sorted
create_expected_deinterlaced_pixel_order(width, height) ==
    LET pass_x_y == {<<ADAM7_INTERLACE_PASSGRID[(ycoord % 8) + 1][(xcoord % 8) + 1], xcoord, ycoord>> :
                        xcoord \in 0..(width - 1), ycoord \in 0..(height - 1)}
    IN  [i \in 1..(width * height) |->
            CHOOSE t \in pass_x_y : Cardinality({u \in pass_x_y : TupleLess(u, t)}) = i - 1]

(***************************************************************************)
(* image_data_parser.py: the sizes of the scanlines of the decompressed    *)
(* image data.  The generator is the sequence of the sizes it yields.      *)
(***************************************************************************)
\* math.ceil(a / b) for a >= 0 and b > 0
ceil(a, b) == (a + b - 1) \div b

max(a, b) == IF a >= b THEN a ELSE b

\* itertools.repeat(object, times)
repeat(object, times) == [i \in 1..times |-> object]

\* a variant with one sample, the palette index, for an indexed pixel
_calculate_bits_per_pixel_indexed_one_sample(color_type, bit_depth) ==
    LET samples_per_pixel == [c \in ColorType |->
            CASE c = grayscale -> 1
              [] c = rgb -> 3
              [] c = indexed -> 1
              [] c = grayscale_alpha -> 2
              [] c = rgb_alpha -> 4]
    IN  samples_per_pixel[color_type] * bit_depth

_calculate_bits_per_pixel(color_type, bit_depth) ==
    LET samples_per_pixel == [c \in ColorType |->
            CASE c = grayscale -> 1
              [] c = rgb -> 3
              [] c = indexed -> 3
              [] c = grayscale_alpha -> 2
              [] c = rgb_alpha -> 4]
    IN  samples_per_pixel[color_type] * bit_depth

_calculate_scanline_sizes(width, height, color_type, bit_depth, interlace_method) ==
    LET bits_per_pixel == _calculate_bits_per_pixel(color_type, bit_depth)
    IN  IF interlace_method = none
        THEN LET scanline_pixel_data_length == ceil(width * bits_per_pixel, 8)
             IN  Parsed(repeat(1 + scanline_pixel_data_length, height))
        ELSE IF interlace_method = adam7
        THEN Parsed(repeat(1 + ceil(width, 8), ceil(height, 8))
                 \o repeat(1 + ceil(max(width - 4, 0), 8), ceil(height, 8))
                 \o repeat(1 + ceil(max(width - 4, 0), 8), ceil(height, 4))
                 \o repeat(1 + ceil(width, 4), ceil(max(height - 4, 0), 4))
                 \o repeat(1 + ceil(max(width - 2, 0), 4), ceil(height, 4))
                 \o repeat(1 + ceil(width, 2), ceil(max(height - 2, 0), 4))
                 \o repeat(1 + ceil(max(width - 1, 0), 2), ceil(height, 2))
                 \o repeat(1 + width, ceil(max(height - 1, 0), 2)))
        ELSE ParseError("UnsupportedField")

\* the fields of an image header that the sizes are calculated from
ScanlineInputs ==
    {[kind |-> "scanlines", width |-> w, height |-> h, color_type |-> a.image_header.color_type,
      bit_depth |-> a.image_header.bit_depth, interlace_method |-> m] :
        w \in 1..MaxWidth, h \in 1..MaxHeight, a \in Antecedents, m \in InterlaceMethod}

ScanlineInit ==
    /\ OrderParserIdle
    /\ NoTokenStream
    /\ input \in ScanlineInputs
    /\ result = NotApplied

\* list(_calculate_scanline_sizes(width, height, color_type, bit_depth, interlace_method))
CalculateScanlineSizes ==
    /\ input.kind = "scanlines"
    /\ result = NotApplied
    /\ result' = _calculate_scanline_sizes(input.width, input.height, input.color_type,
                                           input.bit_depth, input.interlace_method)
    /\ UNCHANGED <<input, lexer_vars, order_vars>>

ScanlineNext ==
    \/ CalculateScanlineSizes

ScanlineSpec == ScanlineInit /\ [][ScanlineNext]_vars

(***************************************************************************)
(* image_data_parser.py: _AdaptiveFiveBasicSubimageUnfilterer.  A bytes    *)
(* or str object is [type, value] with the sequence of its items' codes;   *)
(* an item of a bytes object is an int and an item of a str a str, which   *)
(* cannot be added to an int.  A method returns Return(self, value) or     *)
(* Raise(self, exception) with the object as it leaves it.                 *)
(***************************************************************************)
PyBytes(value) == [type |-> "bytes", value |-> value]

PyStr(value) == [type |-> "str", value |-> value]

AdaptiveFilterType == {EnumMember("AdaptiveFilterType", v) : v \in 0..4}

\* the names of the members of AdaptiveFilterType, by value
AdaptiveFilterTypeName == [v \in 0..4 |-> <<"none", "sub", "up", "average", "paeth">>[v + 1]]

\* _AdaptiveFiveBasicSubimageUnfilterer(color_type, bit_depth)
Unfilterer(color_type, bit_depth) ==
    [_color_type |-> color_type,
     _bit_depth |-> bit_depth,
     _bytes_per_pixel |-> ceil(_calculate_bits_per_pixel(color_type, bit_depth), 8),
     _last_scanline_data |-> None]

\* a variant that looks the value up among the members' values
_get_valid_filter_method_by_value(value) ==
    IF value.value \notin {m.value : m \in AdaptiveFilterType}
    THEN ParseError("PNGSyntaxError")
    ELSE Parsed(CHOOSE m \in AdaptiveFilterType : m.value = value.value)

_get_valid_filter_method(value) ==
    LET valids == AdaptiveFilterType
    IN  IF value \notin valids
        THEN ParseError("PNGSyntaxError")
        ELSE Parsed(CHOOSE m \in valids : m.value = value.value)

_unfilter_with_method_none(self, scanline_data) == Return(self, scanline_data)

RECURSIVE sub_loop(_, _, _, _)
sub_loop(self, scanline_data, pos, decoded_scanline_bytes) ==
    IF pos = Len(scanline_data.value)
    THEN Return(self, PyBytes(decoded_scanline_bytes))
    ELSE LET filtered_byte == scanline_data.value[pos + 1]
             offset == pos - self._bytes_per_pixel
             prior == IF offset < 0 THEN 0 ELSE decoded_scanline_bytes[offset + 1]
         IN  sub_loop(self, scanline_data, pos + 1,
                      Append(decoded_scanline_bytes, (filtered_byte + prior) % 256))

_unfilter_with_method_sub(self, scanline_data) == sub_loop(self, scanline_data, 0, <<>>)

RECURSIVE up_loop(_, _, _, _)
up_loop(self, scanline_data, pos, decoded_scanline_bytes) ==
    IF pos = Len(scanline_data.value)
    THEN Return(self, PyBytes(decoded_scanline_bytes))
    ELSE IF pos >= Len(self._last_scanline_data.value) THEN Raise(self, "IndexError")
    ELSE IF self._last_scanline_data.type # "bytes" THEN Raise(self, "TypeError")
    ELSE LET filtered_byte == scanline_data.value[pos + 1]
             prior == self._last_scanline_data.value[pos + 1]
         IN  up_loop(self, scanline_data, pos + 1,
                     Append(decoded_scanline_bytes, (filtered_byte + prior) % 256))

_unfilter_with_method_up(self, scanline_data) == up_loop(self, scanline_data, 0, <<>>)

\* a variant whose left byte is the decoded byte bytes_per_pixel before
RECURSIVE average_loop_left_at_offset(_, _, _, _)
average_loop_left_at_offset(self, scanline_data, pos, decoded_scanline_bytes) ==
    IF pos = Len(scanline_data.value)
    THEN Return(self, PyBytes(decoded_scanline_bytes))
    ELSE IF pos >= Len(self._last_scanline_data.value) THEN Raise(self, "IndexError")
    ELSE IF self._last_scanline_data.type # "bytes" THEN Raise(self, "TypeError")
    ELSE LET filtered_byte == scanline_data.value[pos + 1]
             prior == self._last_scanline_data.value[pos + 1]
             offset == pos - self._bytes_per_pixel
             raw == IF offset < 0 THEN 0 ELSE decoded_scanline_bytes[offset + 1]
         IN  average_loop_left_at_offset(self, scanline_data, pos + 1,
                 Append(decoded_scanline_bytes, (filtered_byte + ((raw + prior) \div 2)) % 256))

RECURSIVE average_loop(_, _, _, _)
average_loop(self, scanline_data, pos, decoded_scanline_bytes) ==
    IF pos = Len(scanline_data.value)
    THEN Return(self, PyBytes(decoded_scanline_bytes))
    ELSE IF pos >= Len(self._last_scanline_data.value) THEN Raise(self, "IndexError")
    ELSE LET filtered_byte == scanline_data.value[pos + 1]
             prior == self._last_scanline_data.value[pos + 1]
             offset == pos - self._bytes_per_pixel
         IN  IF offset >= 0 /\ pos >= Len(decoded_scanline_bytes)
             THEN Raise(self, "IndexError")
             ELSE IF self._last_scanline_data.type # "bytes" THEN Raise(self, "TypeError")
             ELSE LET raw == IF offset < 0 THEN 0 ELSE decoded_scanline_bytes[pos + 1]
                  IN  average_loop(self, scanline_data, pos + 1,
                          Append(decoded_scanline_bytes,
                                 (filtered_byte + ((raw + prior) \div 2)) % 256))

_unfilter_with_method_average(self, scanline_data) == average_loop(self, scanline_data, 0, <<>>)

abs(n) == IF n < 0 THEN -n ELSE n

\* a variant that prefers the upper left byte to the one above on a tie
paeth_predictor_upperleft_on_tie(left, above, upperleft) ==
    LET predict == left + above - upperleft
        predict_left == abs(predict - left)
        predict_above == abs(predict - above)
        predict_upperleft == abs(predict - upperleft)
    IN  IF predict_left <= predict_above /\ predict_left <= predict_upperleft THEN left
        ELSE IF predict_above < predict_upperleft THEN above
        ELSE upperleft

paeth_predictor(left, above, upperleft) ==
    LET predict == left + above - upperleft
        predict_left == abs(predict - left)
        predict_above == abs(predict - above)
        predict_upperleft == abs(predict - upperleft)
    IN  IF predict_left <= predict_above /\ predict_left <= predict_upperleft THEN left
        ELSE IF predict_above <= predict_upperleft THEN above
        ELSE upperleft

RECURSIVE paeth_loop(_, _, _, _)
paeth_loop(self, scanline_data, pos, decoded_scanline_bytes) ==
    IF pos = Len(scanline_data.value)
    THEN Return(self, PyBytes(decoded_scanline_bytes))
    ELSE IF pos >= Len(self._last_scanline_data.value) THEN Raise(self, "IndexError")
    ELSE IF self._last_scanline_data.type # "bytes" THEN Raise(self, "TypeError")
    ELSE LET filtered_byte == scanline_data.value[pos + 1]
             prior == self._last_scanline_data.value[pos + 1]
             offset == pos - self._bytes_per_pixel
             raw == IF offset < 0 THEN 0 ELSE decoded_scanline_bytes[offset + 1]
             prior_off == IF offset < 0 THEN 0 ELSE self._last_scanline_data.value[offset + 1]
         IN  paeth_loop(self, scanline_data, pos + 1,
                 Append(decoded_scanline_bytes,
                        (filtered_byte + paeth_predictor(raw, prior, prior_off)) % 256))

_unfilter_with_method_paeth(self, scanline_data) == paeth_loop(self, scanline_data, 0, <<>>)

\* getattr(self, '_unfilter_with_method_' + name)(scanline_data)
unfilter(self, name, scanline_data) ==
    CASE name = "none" -> _unfilter_with_method_none(self, scanline_data)
      [] name = "sub" -> _unfilter_with_method_sub(self, scanline_data)
      [] name = "up" -> _unfilter_with_method_up(self, scanline_data)
      [] name = "average" -> _unfilter_with_method_average(self, scanline_data)
      [] name = "paeth" -> _unfilter_with_method_paeth(self, scanline_data)

unfilter_scanline(self, scanline) ==
    IF self._last_scanline_data # None /\ Len(scanline.value) - 1 # Len(self._last_scanline_data.value)
    THEN Raise(self, "ParserStateError")
    ELSE LET self1 == IF self._last_scanline_data = None
                      THEN [self EXCEPT !._last_scanline_data =
                               PyStr([i \in 1..(Len(scanline.value) - 1) |-> 0])]
                      ELSE self
         IN  IF Len(scanline.value) = 0 THEN Raise(self1, "IndexError")
             ELSE LET filter_method == _get_valid_filter_method(PyInt(scanline.value[1]))
                      scanline_data == PyBytes(Tail(scanline.value))
                  IN  IF filter_method.exc # "none" THEN Raise(self1, filter_method.exc)
                      ELSE LET unfiltered_scanline ==
                                   unfilter(self1, AdaptiveFilterTypeName[filter_method.ret.value],
                                            scanline_data)
                           IN  IF unfiltered_scanline.exc # "none" THEN unfiltered_scanline
                               ELSE Return([self1 EXCEPT !._last_scanline_data = unfiltered_scanline.ret],
                                           unfiltered_scanline.ret)

(***************************************************************************)
(* An unfilterer given scanlines one after another, and the five methods   *)
(* called one at a time on an unfilterer whose previous scanline is set.   *)
(***************************************************************************)
\* byte values that make sums wrap and the Paeth distances tie
SampleBytes == {1, 3, 255}

\* the filter type bytes tried: the five types and three that are none
FilterTypeBytes == {0, 1, 2, 3, 4, 5, 128, 255}

\* complete scanlines of one repeated byte, the scanline of the specification's
\* example, and an empty one
Scanlines ==
    {<<f>> \o [i \in 1..n |-> b] : f \in FilterTypeBytes, n \in 0..MaxScanlineData, b \in SampleBytes}
        \cup {<<2, 5, 5, 5>>, <<>>}

UnfilterInit ==
    /\ OrderParserIdle
    /\ NoTokenStream
    /\ \E a \in Antecedents :
        /\ input = [kind |-> "unfilterer", color_type |-> a.image_header.color_type,
                    bit_depth |-> a.image_header.bit_depth]
        /\ result = [kind |-> "unfilterer", exc |-> "none", ret |-> <<>>, calls |-> 0,
                     self |-> Unfilterer(a.image_header.color_type, a.image_header.bit_depth)]

\* unfilterer.unfilter_scanline(scanline)
UnfilterScanline ==
    /\ result.kind = "unfilterer"
    /\ result.calls < MaxUnfilterCalls
    /\ \E scanline \in Scanlines :
        LET r == unfilter_scanline(result.self, PyBytes(scanline))
        IN  /\ input' = [kind |-> "unfilter_scanline", scanline |-> scanline]
            /\ result' = [kind |-> "unfilterer", exc |-> r.exc, ret |-> r.ret,
                          calls |-> result.calls + 1, self |-> r.o]
    /\ UNCHANGED <<lexer_vars, order_vars>>

UnfilterNext ==
    \/ UnfilterScanline

UnfilterSpec == UnfilterInit /\ [][UnfilterNext]_vars

\* a method name, n bytes of scanline data and a previous scanline of n bytes
MethodInputs(n) ==
    {[kind |-> "method", name |-> AdaptiveFilterTypeName[v], color_type |-> a.image_header.color_type,
      bit_depth |-> a.image_header.bit_depth, scanline_data |-> d, previous |-> p] :
        v \in 0..4, a \in Antecedents, d \in [1..n -> SampleBytes], p \in [1..n -> SampleBytes]}

\* the scanline and the previous scanline of the specification's example
ExampleMethodInputs ==
    {[kind |-> "method", name |-> AdaptiveFilterTypeName[v], color_type |-> a.image_header.color_type,
      bit_depth |-> a.image_header.bit_depth, scanline_data |-> <<5, 5, 5>>, previous |-> <<10, 20, 30>>] :
        v \in 0..4, a \in Antecedents}

MethodInit ==
    /\ OrderParserIdle
    /\ NoTokenStream
    /\ \E n \in 0..MaxScanlineData : input \in MethodInputs(n) \cup ExampleMethodInputs
    /\ result = NotApplied

\* unfilterer._last_scanline_data = previous; unfilterer._unfilter_with_method_<name>(scanline_data)
UnfilterWithMethod ==
    /\ input.kind = "method"
    /\ result = NotApplied
    /\ LET self == [Unfilterer(input.color_type, input.bit_depth)
                       EXCEPT !._last_scanline_data = PyBytes(input.previous)]
           r == unfilter(self, input.name, PyBytes(input.scanline_data))
       IN  result' = [kind |-> "unfiltered", exc |-> r.exc, ret |-> r.ret, self |-> r.o]
    /\ UNCHANGED <<input, lexer_vars, order_vars>>

MethodNext ==
    \/ UnfilterWithMethod

MethodSpec == MethodInit /\ [][MethodNext]_vars

(***************************************************************************)
(* image_data_parser.py: _Deflate32KDecompressor, over zlib.decompressobj. *)
(* A compressed stream is a sequence of units: "d", which inflates to one  *)
(* byte, "t", the end of the stream (it inflates to nothing), and "x", a   *)
(* byte after the end.  The zlib object is [eof, unused_data,              *)
(* unconsumed_tail]; decompress(data, max_length) inflates until the       *)
(* output holds max_length bytes (0: no limit), the data is used up or the *)
(* stream ends.                                                            *)
(***************************************************************************)
\* zlib.decompressobj(wbits=15)
decompressobj == [eof |-> FALSE, unused_data |-> <<>>, unconsumed_tail |-> <<>>]

\* the number of units inflate consumes of data from unit i on, with produced bytes
\* in the output; when the output is full as the end of the stream comes up, zlib
\* either reads the end or leaves it for the next call (read_end)
RECURSIVE inflate(_, _, _, _, _)
inflate(data, i, produced, max_length, read_end) ==
    LET full == max_length # 0 /\ produced >= max_length
    IN  IF i > Len(data) THEN [consumed |-> i - 1, produced |-> produced, eof |-> FALSE]
        ELSE IF data[i] = "d"
        THEN IF full
             THEN [consumed |-> i - 1, produced |-> produced, eof |-> FALSE]
             ELSE inflate(data, i + 1, produced + 1, max_length, read_end)
        ELSE IF full /\ ~read_end
             THEN [consumed |-> i - 1, produced |-> produced, eof |-> FALSE]
             ELSE [consumed |-> i, produced |-> produced, eof |-> TRUE]

\* self._decompressor.decompress(data, max_length): the object after the call and the bytes returned
zlib_decompress(z, data, max_length, read_end) ==
    IF z.eof
    THEN [z |-> [z EXCEPT !.unused_data = @ \o data], ret |-> <<>>]
    ELSE LET r == inflate(data, 1, 0, max_length, read_end)
             left == SubSeq(data, r.consumed + 1, Len(data))
         IN  [z |-> [eof |-> r.eof,
                     unused_data |-> IF r.eof THEN z.unused_data \o left ELSE z.unused_data,
                     unconsumed_tail |-> IF r.eof /\ z.unconsumed_tail = <<>> THEN <<>> ELSE left],
              ret |-> [j \in 1..r.produced |-> "d"]]

\* _Deflate32KDecompressor()
Deflate32KDecompressor == [_decompressor |-> decompressobj, _last_unconsumed |-> <<>>, decompressed |-> 0]

decompress(self, data, max_length, read_end) ==
    LET r == zlib_decompress(self._decompressor, self._last_unconsumed \o data, max_length, read_end)
    IN  Return([_decompressor |-> r.z,
                _last_unconsumed |-> r.z.unconsumed_tail,
                decompressed |-> self.decompressed + Len(r.ret)],
               r.ret)

\* a variant that looks for bytes after the end of the stream first
verify_end_unused_data_first(self) ==
    IF self._decompressor.unused_data # <<>>
    THEN Raise(self, "DecompressionFinishedEarly")
    ELSE IF self._last_unconsumed # <<>> \/ ~self._decompressor.eof
    THEN Raise(self, "DecompressionNotFinished")
    ELSE Return(self, <<>>)

verify_end(self) ==
    IF self._last_unconsumed # <<>> \/ ~self._decompressor.eof
    THEN Raise(self, "DecompressionNotFinished")
    ELSE IF self._decompressor.unused_data # <<>>
    THEN Raise(self, "DecompressionFinishedEarly")
    ELSE Return(self, <<>>)

\* compressed streams of up to MaxDeflateData bytes of image data, with up to
\* MaxExtra bytes after their end
CompressedStreams ==
    {[i \in 1..(n + 1 + x) |-> IF i <= n THEN "d" ELSE IF i = n + 1 THEN "t" ELSE "x"] :
        n \in 0..MaxDeflateData, x \in 0..MaxExtra}

\* a new decompressor and the compressed stream it is to be given, none of it handed over yet
DecompressorInit ==
    /\ OrderParserIdle
    /\ NoTokenStream
    /\ \E s \in CompressedStreams : input = [kind |-> "deflate", stream |-> s, fed |-> 0]
    /\ result = [kind |-> "decompressor", exc |-> "none", ret |-> <<>>, calls |-> 0,
                 verified |-> FALSE, self |-> Deflate32KDecompressor]

\* decompressor.decompress(data, max_length) with the next bytes of the stream
Decompress ==
    /\ result.kind = "decompressor"
    /\ ~result.verified
    /\ result.calls < MaxDecompressCalls
    /\ \E n \in 0..(Len(input.stream) - input.fed), max_length \in 0..MaxDeflateData,
          read_end \in BOOLEAN :
        LET data == SubSeq(input.stream, input.fed + 1, input.fed + n)
            r == decompress(result.self, data, max_length, read_end)
        IN  /\ input' = [input EXCEPT !.fed = @ + n]
            /\ result' = [result EXCEPT !.exc = r.exc, !.ret = r.ret, !.calls = @ + 1,
                                        !.self = r.o]
    /\ UNCHANGED <<lexer_vars, order_vars>>

\* decompressor.verify_end()
VerifyEnd ==
    /\ result.kind = "decompressor"
    /\ ~result.verified
    /\ LET r == verify_end(result.self)
       IN  result' = [result EXCEPT !.exc = r.exc, !.ret = r.ret, !.verified = TRUE,
                                    !.self = r.o]
    /\ UNCHANGED <<input, lexer_vars, order_vars>>

DecompressorNext ==
    \/ Decompress
    \/ VerifyEnd

DecompressorSpec == DecompressorInit /\ [][DecompressorNext]_vars

(***************************************************************************)
(* Properties of the token stream.                                         *)
(***************************************************************************)
\* the stream is iterated and is as the chunks encode it, every CRC right
WellFormed == pc # "calls" /\ damage = NoDamage

\* ceil(length / 4096)
NumParts(length) == (length + PNG_CHUNK_MAX_DATA_READ - 1) \div PNG_CHUNK_MAX_DATA_READ

\* what a token is, without its payload and position
TokenShape(t) ==
    IF t.kind = "Head"
    THEN [kind |-> "Head", code |-> t.code, length |-> t.length, crc32ok |-> TRUE]
    ELSE [kind |-> t.kind, code |-> t.head.code, length |-> t.head.length,
          crc32ok |-> IF t.kind = "End" THEN t.crc32ok ELSE TRUE]

TokenShapes == [i \in 1..Len(tokens) |-> TokenShape(tokens[i])]

ShapeOf(kind, fake) ==
    [kind |-> kind, code |-> fake.type, length |-> Len(fake.data), crc32ok |-> TRUE]

\* one Head, ceil(length / 4096) DataParts, one End whose crc32ok is true
ChunkShapes(fake) ==
    <<ShapeOf("Head", fake)>>
    \o [i \in 1..NumParts(Len(fake.data)) |-> ShapeOf("DataPart", fake)]
    \o <<ShapeOf("End", fake)>>

RECURSIVE StreamShapes(_)
StreamShapes(fakes) ==
    IF fakes = <<>> THEN <<>>
    ELSE ChunkShapes(Head(fakes)) \o StreamShapes(Tail(fakes))

IsPrefix(s, t) == Len(s) <= Len(t) /\ s = SubSeq(t, 1, Len(s))

\* C1: iterating a well-formed stream yields, chunk after chunk in stream order,
\* one Head, then ceil(length / 4096) DataParts (none for length 0), then one End
\* with crc32ok = true, and only then the next chunk's Head; the iteration ends
\* without an exception when every chunk has been yielded so.
C1_TokensPerChunk ==
    WellFormed =>
        /\ IsPrefix(TokenShapes, StreamShapes(fake_chunks))
        /\ pc = "done" => (raised = "none" /\ TokenShapes = StreamShapes(fake_chunks))

\* a finished iteration over IHDR (13 bytes), a long IDAT of several parts and
\* one more byte, and an empty IEND
C1_Witness ==
    /\ WellFormed
    /\ pc = "done"
    /\ Len(fake_chunks) = 3
    /\ Len(fake_chunks[2].data) = MaxParts * PNG_CHUNK_MAX_DATA_READ + 1
    /\ Len(tokens) = 3 + (MaxParts + 3) + 2

\* signature, IHDR with its 13 data bytes, a non-empty IDAT, an empty IEND
IsMinimalStream(fakes) ==
    /\ Len(fakes) = 3
    /\ fakes[1].type = IMAGE_HEADER /\ Len(fakes[1].data) = 13
    /\ fakes[2].type = IMAGE_DATA /\ Len(fakes[2].data) > 0
    /\ fakes[3] = iend

TokenLabel(t) ==
    IF t.kind = "Head" THEN <<"Head", t.code>>
    ELSE IF t.kind = "DataPart" THEN <<"DataPart", t.head.code>>
    ELSE <<"End", t.head.code, t.crc32ok>>

TokenLabels == [i \in 1..Len(tokens) |-> TokenLabel(tokens[i])]

Repeated(x, k) == [i \in 1..k |-> x]

\* C2, as stated: the tokens of a well-formed minimal stream are exactly
\* Head(IHDR), End(IHDR,true), Head(IDAT), one or more DataPart(IDAT),
\* End(IDAT,true), Head(IEND), End(IEND,true).
C2_AsStated ==
    (WellFormed /\ pc = "done" /\ IsMinimalStream(fake_chunks)) =>
        \E k \in 1..Len(tokens) :
            TokenLabels =
                <<<<"Head", IMAGE_HEADER>>, <<"End", IMAGE_HEADER, TRUE>>,
                  <<"Head", IMAGE_DATA>>>>
                \o Repeated(<<"DataPart", IMAGE_DATA>>, k)
                \o <<<<"End", IMAGE_DATA, TRUE>>,
                     <<"Head", IMAGE_TRAILER>>, <<"End", IMAGE_TRAILER, TRUE>>>>

\* C2, amended: the tokens of a well-formed minimal stream are exactly
\* Head(IHDR), DataPart(IHDR), End(IHDR,true), Head(IDAT), one or more
\* DataPart(IDAT), End(IDAT,true), Head(IEND), End(IEND,true).
C2_MinimalStreamTokens ==
    (WellFormed /\ pc = "done" /\ IsMinimalStream(fake_chunks)) =>
        /\ raised = "none"
        /\ \E k \in 1..Len(tokens) :
            TokenLabels =
                <<<<"Head", IMAGE_HEADER>>, <<"DataPart", IMAGE_HEADER>>,
                  <<"End", IMAGE_HEADER, TRUE>>, <<"Head", IMAGE_DATA>>>>
                \o Repeated(<<"DataPart", IMAGE_DATA>>, k)
                \o <<<<"End", IMAGE_DATA, TRUE>>,
                     <<"Head", IMAGE_TRAILER>>, <<"End", IMAGE_TRAILER, TRUE>>>>

\* the finished iteration of the tests' stream: eight tokens, the second the
\* DataPart of IHDR
C2_Witness ==
    /\ WellFormed
    /\ pc = "done"
    /\ fake_chunks = MinimalStream
    /\ Len(tokens) = 8
    /\ tokens[2].kind = "DataPart"
    /\ tokens[2].head.code = IMAGE_HEADER

\* the index of the last of the DataPart tokens that follow the Head token at index h
LastPart(h) ==
    h + Cardinality({i \in (h + 1)..Len(tokens) :
                        \A j \in (h + 1)..i : tokens[j].kind = "DataPart"})

\* the payloads of the tokens lo..hi, one after the other
RECURSIVE Payload(_, _)
Payload(lo, hi) ==
    IF lo > hi THEN <<>> ELSE Payload(lo, hi - 1) \o tokens[hi].data

\* the chunk whose Head token is at index h has been read to its end step
ReachedEnd(h) == LastPart(h) < Len(tokens) \/ raised = "BadCRC"

IsCall(method) == ncalls' = ncalls + 1 /\ last_call'.method = method

\* the step leaves the byte source and the byte count as they were
SourceUntouched ==
    /\ stream_reads' = stream_reads
    /\ stream_pos' = stream_pos
    /\ stream' = stream
    /\ total_bytes_read' = total_bytes_read

\* C4: total_bytes_read never exceeds 20 MiB; a read of n bytes with
\* total_bytes_read + n > 20 MiB raises PNGTooLarge without asking the byte
\* source, total_bytes_read and the source position staying as they were; a read
\* with total_bytes_read + n <= 20 MiB (landing on the limit included) is passed
\* to the byte source and does not raise PNGTooLarge.
C4_ByteBudget ==
    /\ [](total_bytes_read <= 20 * 2^20)
    /\ [][IsCall("_read") =>
            IF total_bytes_read + last_call'.arg > 20 * 2^20
            THEN raised' = "PNGTooLarge" /\ SourceUntouched
            ELSE /\ raised' # "PNGTooLarge"
                 /\ stream_reads' = stream_reads + 1
                 /\ total_bytes_read' = total_bytes_read + Min(last_call'.arg, Len(stream))
                 /\ stream_pos' = total_bytes_read']_vars

\* a read landed exactly on the limit, and the next read of at least one byte
\* was refused
C4_Witness ==
    /\ total_bytes_read = PNG_MAX_FILE_SIZE
    /\ stream_reads >= 1
    /\ last_call.method = "_read"
    /\ last_call.arg >= 1
    /\ raised = "PNGTooLarge"

InFlight == chunk_state # <<>>

\* the indexes of the tokens of the given kind
TokensOfKind(kind) == {i \in 1..Len(tokens) : tokens[i].kind = kind}

\* the call is refused: StreamStateError, and nothing has been touched
Refused ==
    /\ raised' = "StreamStateError"
    /\ SourceUntouched
    /\ chunk_state' = chunk_state
    /\ tokens' = tokens

\* C5: at most one chunk is in flight (between two Head tokens there is an End
\* token, and the state in flight is that of the last Head); the state is created
\* by a head step only and cleared by an end step only; a head call with a chunk
\* in flight, a data call with no chunk in flight or no data remaining, and an end
\* call with no chunk in flight or data remaining raise StreamStateError without a
\* read being issued to the source.
C5_ChunkInFlight ==
    /\ [](\A i, j \in TokensOfKind("Head") :
              i < j => \E k \in TokensOfKind("End") : i < k /\ k < j)
    /\ [](InFlight =>
              /\ Len(chunk_state) = 1
              /\ TokensOfKind("Head") # {}
              /\ \E h \in TokensOfKind("Head") :
                     /\ tokens[h] = chunk_state[1].head
                     /\ \A k \in TokensOfKind("Head") \cup TokensOfKind("End") : k <= h)
    /\ [][(~InFlight /\ InFlight') =>
              (pc = "head" \/ IsCall("_get_chunk_head")) /\ raised' = "none"]_vars
    /\ [][(InFlight /\ ~InFlight') =>
              (pc = "data" \/ IsCall("_get_chunk_end")) /\ chunk_state[1].data_remaining = 0]_vars
    /\ [][(IsCall("_get_chunk_head") /\ raised' = "none") => InFlight']_vars
    /\ [][(IsCall("_get_chunk_end") /\ raised' = "none") => ~InFlight']_vars
    /\ [][(IsCall("_get_chunk_head") /\ InFlight) => Refused]_vars
    /\ [][(IsCall("_get_chunk_data") /\ (~InFlight \/ chunk_state[1].data_remaining = 0))
              => Refused]_vars
    /\ [][(IsCall("_get_chunk_end") /\ (~InFlight \/ chunk_state[1].data_remaining > 0))
              => Refused]_vars

\* a head was started while the chunk of an earlier head was in flight
C5_Witness ==
    /\ InFlight
    /\ last_call.method = "_get_chunk_head"
    /\ raised = "StreamStateError"
    /\ stream_reads = 2

\* the bytes of the DataPart tokens produced since the last Head token
BytesOfPartsInFlight ==
    LET h == CHOOSE i \in TokensOfKind("Head") : \A k \in TokensOfKind("Head") : k <= i
    IN  Len(Payload(h + 1, Len(tokens)))

\* C6: whenever a chunk is in flight, next_read = min(4096, data_remaining) and
\* 0 <= data_remaining <= head.length, and data_remaining is head.length less the
\* bytes of the parts read so far (each part takes exactly its bytes off).
C6_ChunkStateInvariant ==
    InFlight =>
        LET s == chunk_state[1]
        IN  /\ s.next_read = (IF s.data_remaining < 4096 THEN s.data_remaining ELSE 4096)
            /\ 0 <= s.data_remaining
            /\ s.data_remaining <= s.head.length
            /\ s.data_remaining = s.head.length - BytesOfPartsInFlight

\* MaxParts full parts of a chunk of MaxParts * 4096 + 1 bytes have been read:
\* one byte remains and is the next read
C6_Witness ==
    /\ InFlight
    /\ chunk_state[1].head.length = MaxParts * PNG_CHUNK_MAX_DATA_READ + 1
    /\ chunk_state[1].data_remaining = 1
    /\ chunk_state[1].next_read = 1
    /\ BytesOfPartsInFlight = MaxParts * PNG_CHUNK_MAX_DATA_READ

Iterating == pc # "calls"

\* C7: when an exception leaves the iteration (BadCRC included), the step that
\* raises it yields no token, the iteration is over, and from then on no token
\* is yielded and no read is issued to the byte source.
C7_NothingAfterError ==
    /\ [][(Iterating /\ raised = "none" /\ raised' # "none") => tokens' = tokens]_vars
    /\ []((Iterating /\ raised # "none") => pc = "done")
    /\ [][(Iterating /\ raised # "none") =>
              /\ tokens' = tokens
              /\ stream_reads' = stream_reads
              /\ stream' = stream
              /\ raised' = raised]_vars

\* the CRC of the first chunk did not match: BadCRC, the chunk's End was not
\* yielded, and the chunks after it are still in the byte source
C7_Witness ==
    /\ pc = "done"
    /\ raised = "BadCRC"
    /\ Len(tokens) = 2
    /\ tokens[2].kind = "DataPart"
    /\ Len(stream) > 0

ValidSignature ==
    Len(contents) >= 8 /\ SubSeq(contents, 1, 8) = <<137, 80, 78, 71, 13, 10, 26, 10>>

\* the length the chunk that starts after the first p bytes of the stream declares
DeclaredLength(p) == UnpackU32(SubSeq(contents, p + 1, p + 4))

\* the chunk that starts after the first p bytes is in the stream up to its CRC
ChunkComplete(p) ==
    /\ p + 4 <= Len(contents)
    /\ ~U32Gt(DeclaredLength(p), U32FromInt(Len(contents)))
    /\ p + 12 + U32ToInt(DeclaredLength(p)) <= Len(contents)

\* the stream, cut into chunks by the declared lengths from offset p on, ends
\* exactly where a chunk ends
RECURSIVE EndsAtChunkBoundary(_)
EndsAtChunkBoundary(p) ==
    \/ p = Len(contents)
    \/ ChunkComplete(p) /\ EndsAtChunkBoundary(p + 12 + U32ToInt(DeclaredLength(p)))

\* from offset p on: no declared length above 2^31 - 1, no type code with a byte
\* that is not a letter, no complete chunk whose CRC does not match
RECURSIVE ChunksValid(_)
ChunksValid(p) ==
    IF p + 4 > Len(contents) THEN TRUE
    ELSE IF U32Gt(DeclaredLength(p), U32(32767, 65535)) THEN FALSE
    ELSE IF p + 8 > Len(contents) THEN TRUE
    ELSE IF \E i \in (p + 5)..(p + 8) : contents[i] \notin (65..90) \cup (97..122) THEN FALSE
    ELSE IF ~ChunkComplete(p) THEN TRUE
    ELSE LET n == U32ToInt(DeclaredLength(p))
         IN  /\ crc32(SubSeq(contents, p + 5, p + 8 + n), U32(0, 0))
                    = UnpackU32(SubSeq(contents, p + 9 + n, p + 12 + n))
             /\ ChunksValid(p + 12 + n)

RECURSIVE ChunkStart(_, _)
ChunkStart(fakes, i) ==
    IF i = 1 THEN 8 ELSE ChunkStart(fakes, i - 1) + 12 + Len(fakes[i - 1].data)

\* the offsets of the type code and of the data of chunk i
CodeOffsets(fakes, i) == (ChunkStart(fakes, i) + 5)..(ChunkStart(fakes, i) + 8)

DataOffsets(fakes, i) ==
    (ChunkStart(fakes, i) + 9)..(ChunkStart(fakes, i) + 8 + Len(fakes[i].data))

\* the iteration failed with BadCRC in the end step of chunk i: the chunks before
\* it were yielded with their End, chunk i with its Head and all its DataParts
\* but no End, and the byte source was read up to the end of chunk i's CRC
BadCRCAtEndOf(i) ==
    /\ raised = "BadCRC"
    /\ Cardinality(TokensOfKind("Head")) = i
    /\ Cardinality(TokensOfKind("End")) = i - 1
    /\ tokens[Len(tokens)].kind # "End"
    /\ Len(tokens) = Len(StreamShapes(SubSeq(fake_chunks, 1, i))) - 1
    /\ stream_pos = ChunkStart(fake_chunks, i) + 12 + Len(fake_chunks[i].data)

\* C9, as stated: one byte of a chunk's type code or data changed to any other
\* value, the declared CRC left alone, makes the iteration fail with BadCRC at
\* that chunk's end step.
C9_AsStated ==
    (Iterating /\ pc = "done" /\ damage.kind = "change") =>
        \A i \in 1..Len(fake_chunks) :
            damage.at \in CodeOffsets(fake_chunks, i) \cup DataOffsets(fake_chunks, i)
                => BadCRCAtEndOf(i)

\* C9, amended: one byte of a chunk's data changed to any other value, or one
\* byte of its type code changed to any other letter, the declared CRC left
\* alone, makes the iteration fail with BadCRC at that chunk's end step.
C9_ChangedByte ==
    (Iterating /\ pc = "done" /\ damage.kind = "change") =>
        \A i \in 1..Len(fake_chunks) :
            (\/ damage.at \in DataOffsets(fake_chunks, i)
             \/ /\ damage.at \in CodeOffsets(fake_chunks, i)
                /\ damage.to \in (65..90) \cup (97..122))
                => BadCRCAtEndOf(i)

\* a byte of the type code of the second chunk was changed to another letter:
\* BadCRC after the chunk's Head and DataPart
C9_Witness ==
    /\ Iterating
    /\ pc = "done"
    /\ damage.kind = "change"
    /\ damage.at \in CodeOffsets(fake_chunks, 2)
    /\ damage.to \in (65..90) \cup (97..122)
    /\ raised = "BadCRC"
    /\ Len(tokens) = 5
    /\ tokens[4].kind = "Head"
    /\ tokens[4].code # IMAGE_DATA

(***************************************************************************)
(* Properties of the chunk order parser.                                   *)
(***************************************************************************)
\* the classes of chunk codes, as the specification lists them
SpecBeforePalette ==
    {PRIMARY_CHROMATICITIES, IMAGE_GAMMA, EMBEDDED_ICC_PROFILE, SIGNIFICANT_BITS,
     STANDARD_RGB_COLOR_SPACE}

SpecAfterPaletteBeforeData == {BACKGROUND_COLOR, PALETTE_HISTOGRAM, TRANSPARENCY}

SpecBeforeData == {PHYSICAL_PIXEL_DIMENSIONS, SUGGESTED_PALETTE}

SpecAllowedAnywhere ==
    {IMAGE_LAST_MODIFICATION_TIME, INTERNATIONAL_TEXTUAL_DATA, TEXTUAL_DATA,
     COMPRESSED_TEXTUAL_DATA}

SpecKnown ==
    {IMAGE_HEADER, PALETTE, IMAGE_DATA, IMAGE_TRAILER} \cup SpecBeforePalette
    \cup SpecAfterPaletteBeforeData \cup SpecBeforeData \cup SpecAllowedAnywhere

\* the specification's transition table, row by row: the next state, or "reject"
SpecTransition(s, c) ==
    CASE s = "before_header" ->
             IF c = IMAGE_HEADER THEN "before_palette" ELSE "reject"
      [] s = "before_palette" ->
             IF c = IMAGE_HEADER THEN "reject"
             ELSE IF c \in SpecBeforePalette \cup SpecBeforeData \cup SpecAllowedAnywhere
             THEN "before_palette"
             ELSE IF c \in SpecAfterPaletteBeforeData THEN "after_palette_before_data"
             ELSE IF c = PALETTE THEN "after_palette_before_data"
             ELSE IF c = IMAGE_DATA THEN "during_data"
             ELSE IF c = IMAGE_TRAILER THEN "reject"
             ELSE "before_palette"
      [] s = "after_palette_before_data" ->
             IF c = IMAGE_HEADER THEN "reject"
             ELSE IF c \in SpecBeforeData \cup SpecAllowedAnywhere
             THEN "after_palette_before_data"
             ELSE IF c \in SpecBeforePalette THEN "reject"
             ELSE IF c \in SpecAfterPaletteBeforeData THEN "after_palette_before_data"
             ELSE IF c = PALETTE THEN "reject"
             ELSE IF c = IMAGE_DATA THEN "during_data"
             ELSE IF c = IMAGE_TRAILER THEN "reject"
             ELSE "after_palette_before_data"
      [] s = "during_data" ->
             IF c = IMAGE_HEADER THEN "reject"
             ELSE IF c \in SpecAllowedAnywhere THEN "after_data"
             ELSE IF c \in SpecBeforePalette \cup SpecBeforeData THEN "reject"
             ELSE IF c \in SpecAfterPaletteBeforeData THEN "reject"
             ELSE IF c = PALETTE THEN "reject"
             ELSE IF c = IMAGE_DATA THEN "during_data"
             ELSE IF c = IMAGE_TRAILER THEN "after_trailer"
             ELSE "after_data"
      [] s = "after_data" ->
             IF c = IMAGE_HEADER THEN "reject"
             ELSE IF c \in SpecAllowedAnywhere THEN "after_data"
             ELSE IF c \in SpecBeforePalette \cup SpecBeforeData THEN "reject"
             ELSE IF c \in SpecAfterPaletteBeforeData THEN "reject"
             ELSE IF c = PALETTE THEN "reject"
             ELSE IF c = IMAGE_DATA THEN "reject"
             ELSE IF c = IMAGE_TRAILER THEN "after_trailer"
             ELSE "after_data"
      [] s = "after_trailer" -> "reject"

\* the multiplicity rule lets one more chunk of code c pass
MultiplicityPasses(c) ==
    \/ nseen[c] = 0
    \/ c \in {IMAGE_DATA, SUGGESTED_PALETTE, INTERNATIONAL_TEXTUAL_DATA, TEXTUAL_DATA,
              COMPRESSED_TEXTUAL_DATA}
    \/ c \notin SpecKnown

\* the step is a call validate(c)
IsValidate(c) == order_calls' = order_calls + 1 /\ order_last' = c

\* C10: in every state s, for each of the 18 known codes and for unrecognized
\* codes c whose multiplicity check passes, validate(c) raises PNGSyntaxError
\* (and stays in s) where the specification's table rejects, and otherwise
\* returns having moved to exactly the state the table gives.
C10_TransitionTable ==
    [][\A c \in CODE_TO_CHUNK_TYPE \cup UnknownCodes :
           (IsValidate(c) /\ MultiplicityPasses(c)) =>
               IF SpecTransition(order_state, c) = "reject"
               THEN order_raised' = "PNGSyntaxError" /\ order_state' = order_state
               ELSE order_raised' = "none"
                    /\ order_state' = SpecTransition(order_state, c)]_vars

\* IHDR, IDAT, then an unrecognized code: the data run is over
C10_Witness ==
    /\ order_calls = 3
    /\ nseen[IMAGE_HEADER] = 1
    /\ nseen[IMAGE_DATA] = 1
    /\ order_last \in UnknownCodes
    /\ nseen[order_last] = 1
    /\ order_raised = "none"
    /\ order_state = "after_data"

(***************************************************************************)
(* Properties of whole code sequences fed to a fresh ChunkOrderParser.     *)
(***************************************************************************)
\* the codes passed to validate so far
Fed == SubSeq(codes, 1, Min(order_calls, Len(codes)))

\* every validate call has been made and has returned
AllValidated == order_calls >= Len(codes) /\ (order_calls = Len(codes) => order_raised = "none")

\* validate_end has been called
Ended == order_calls = Len(codes) + 1

ValidOrderings ==
    {<<IMAGE_HEADER, IMAGE_DATA, IMAGE_TRAILER>>,
     <<IMAGE_HEADER, PALETTE, IMAGE_DATA, IMAGE_TRAILER>>}

\* C11: fed to a fresh parser, [IHDR, IDAT, IEND] and [IHDR, PLTE, IDAT, IEND]
\* raise nothing in any validate call, leave the parser in after_trailer, and
\* validate_end then raises nothing either.
C11_ValidOrderings ==
    codes \in ValidOrderings =>
        /\ order_raised = "none"
        /\ order_calls >= Len(codes) => order_state = "after_trailer"

C11_Witness ==
    /\ codes = <<IMAGE_HEADER, PALETTE, IMAGE_DATA, IMAGE_TRAILER>>
    /\ Ended
    /\ order_raised = "none"
    /\ order_state = "after_trailer"

\* C12: the first validate call on a fresh parser raises PNGSyntaxError for
\* every code other than IHDR, a known code or an unrecognized one, and the
\* parser stays in before_header.
C12_HeaderFirst ==
    (order_calls = 1 /\ order_last \notin {<<>>, IMAGE_HEADER}) =>
        (order_raised = "PNGSyntaxError" /\ order_state = "before_header")

C12_Witness ==
    /\ order_calls = 1
    /\ order_last \in UnknownCodes
    /\ order_raised = "PNGSyntaxError"

\* the elements of a sequence
Range(seq) == {seq[i] : i \in 1..Len(seq)}

\* this step is validate(c) on the next code of the sequence
IsFeed(c) == order_calls < Len(codes) /\ order_calls' = order_calls + 1 /\ codes[order_calls + 1] = c

\* C13: validate(IEND) raises PNGSyntaxError in before_palette and in
\* after_palette_before_data, and where it succeeds the parser was in
\* during_data or after_data and an IDAT was accepted before it; so
\* [IHDR, PLTE, IEND] is rejected at its IEND, and every sequence for which
\* validate_end succeeds contains an IDAT.
C13_TrailerAfterData ==
    /\ [][IsFeed(IMAGE_TRAILER) =>
            /\ (order_state \in {"before_palette", "after_palette_before_data"}
                    => order_raised' = "PNGSyntaxError")
            /\ (order_raised' = "none"
                    => (order_state \in {"during_data", "after_data"} /\ IMAGE_DATA \in Range(Fed)))]_vars
    /\ []((codes = <<IMAGE_HEADER, PALETTE, IMAGE_TRAILER>> /\ order_calls >= 3)
            => (order_raised = "PNGSyntaxError" /\ order_calls = 3))
    /\ []((Ended /\ order_raised = "none") => IMAGE_DATA \in Range(codes))

C13_Witness ==
    /\ codes = <<IMAGE_HEADER, PALETTE, IMAGE_TRAILER>>
    /\ order_calls = 3
    /\ order_state = "after_palette_before_data"
    /\ order_raised = "PNGSyntaxError"

\* this step is a validate call, of any code
IsAnyValidate == order_calls' = order_calls + 1 /\ order_last' # <<>>

\* C14: once the parser is in after_trailer (IEND has been accepted) it
\* stays there, and every validate call raises PNGSyntaxError, whatever the
\* code, known or unrecognized.
C14_NothingAfterTrailer ==
    [][order_state = "after_trailer" =>
            /\ order_state' = "after_trailer"
            /\ IsAnyValidate => order_raised' = "PNGSyntaxError"]_vars

C14_Witness ==
    /\ order_state = "after_trailer"
    /\ order_last \in UnknownCodes
    /\ order_raised = "PNGSyntaxError"

\* this step is the validate_end call that follows the sequence
IsFeedEnd == order_calls = Len(codes) /\ order_calls' = order_calls + 1

\* every code of the sequence was accepted and the last of them is IEND
LastAcceptedIsTrailer == codes # <<>> /\ codes[Len(codes)] = IMAGE_TRAILER

\* C15: validate_end raises PNGSyntaxError in every state other than
\* after_trailer and raises nothing in after_trailer, which is the state the
\* parser is in exactly when the last accepted chunk was IEND; it leaves the
\* parser's state (and its counts) as they were.
C15_ValidateEnd ==
    [][IsFeedEnd =>
            /\ order_state # "after_trailer" => order_raised' = "PNGSyntaxError"
            /\ order_state = "after_trailer" => order_raised' = "none"
            /\ order_state = "after_trailer" <=> LastAcceptedIsTrailer
            /\ order_state' = order_state
            /\ nseen' = nseen]_vars

C15_Witness ==
    /\ codes = <<IMAGE_HEADER, IMAGE_DATA>>
    /\ Ended
    /\ order_state = "during_data"
    /\ order_raised = "PNGSyntaxError"

\* the codes the specification allows more than once
SpecMultiple ==
    {IMAGE_DATA, SUGGESTED_PALETTE, INTERNATIONAL_TEXTUAL_DATA, TEXTUAL_DATA,
     COMPRESSED_TEXTUAL_DATA}

\* C16: check(c), which every validate(c) call makes first, raises
\* PNGSyntaxError exactly when c was passed to check before and c is a known
\* code other than IDAT, sPLT, iTXt, tEXt, zTXt; then the count stays, and
\* otherwise check raises nothing and counts c once more.
C16_CountCheck ==
    [][IsAnyValidate =>
            LET c == order_last'
                counted == check(nseen, c)
                repeated_single == passed[c] >= 1 /\ c \in SpecKnown \ SpecMultiple
            IN  /\ counted.exc = "PNGSyntaxError" <=> repeated_single
                /\ counted.exc # "PNGSyntaxError" => counted.exc = "none"
                /\ repeated_single => (order_raised' = "PNGSyntaxError" /\ nseen' = nseen)
                /\ ~repeated_single => nseen' = [nseen EXCEPT ![c] = @ + 1]]_vars

C16_Witness ==
    /\ order_last = IMAGE_LAST_MODIFICATION_TIME
    /\ passed[IMAGE_LAST_MODIFICATION_TIME] = 2
    /\ nseen[IMAGE_LAST_MODIFICATION_TIME] = 1
    /\ order_raised = "PNGSyntaxError"
    /\ passed[IMAGE_DATA] = 2
    /\ nseen[IMAGE_DATA] = 2

\* this step is validate(c) for an unrecognized code c
IsValidateUnknown == IsAnyValidate /\ order_last' \in UnknownCodes

\* C17 as stated: an unrecognized code is accepted in every state but
\* before_header.
C17_AsStated ==
    [][(IsValidateUnknown /\ order_state # "before_header") => order_raised' = "none"]_vars

\* C17: an unrecognized code is accepted, however many times it has been
\* passed before, in every state except before_header and after_trailer,
\* where it is rejected with PNGSyntaxError.
C17_UnknownCodes ==
    [][IsValidateUnknown =>
            /\ order_state \notin {"before_header", "after_trailer"} => order_raised' = "none"
            /\ order_state \in {"before_header", "after_trailer"}
                    => order_raised' = "PNGSyntaxError"]_vars

C17_Witness ==
    /\ order_last \in UnknownCodes
    /\ passed[order_last] = 3
    /\ order_state = "before_palette"
    /\ order_raised = "none"

\* the codes accepted so far: those fed, but for one that raised
Accepted ==
    IF order_calls <= Len(codes) /\ order_raised # "none"
    THEN SubSeq(codes, 1, order_calls - 1)
    ELSE Fed

\* the IDATs of a sequence are next to one another
DataConsecutive(seq) ==
    \A i, j \in 1..Len(seq) :
        (i < j /\ seq[i] = IMAGE_DATA /\ seq[j] = IMAGE_DATA)
            => \A k \in i..j : seq[k] = IMAGE_DATA

\* an IDAT of the sequence is followed by another code
DataInterrupted(seq) ==
    \E i, j \in 1..Len(seq) : i < j /\ seq[i] = IMAGE_DATA /\ seq[j] # IMAGE_DATA

\* C18: the accepted IDATs are consecutive: once an IDAT has been accepted,
\* a code other than IDAT and IEND is accepted only if it is tIME, iTXt, tEXt,
\* zTXt or unrecognized, accepting it puts the parser in after_data, and every
\* IDAT fed after that raises PNGSyntaxError.
C18_DataConsecutive ==
    /\ []DataConsecutive(Accepted)
    /\ [][\A c \in SequenceCodes :
            (IsFeed(c) /\ IMAGE_DATA \in Range(Fed)) =>
                /\ (c \notin {IMAGE_DATA, IMAGE_TRAILER} /\ order_raised' = "none")
                        => (order_state' = "after_data" /\ c \in SpecAllowedAnywhere \cup UnknownCodes)
                /\ (c \in SpecAllowedAnywhere \cup UnknownCodes /\ passed[c] = 0)
                        => (order_raised' = "none" \/ order_state = "after_trailer")
                /\ (c = IMAGE_DATA /\ DataInterrupted(Fed))
                        => order_raised' = "PNGSyntaxError"]_vars

C18_Witness ==
    /\ codes = <<IMAGE_HEADER, IMAGE_DATA, IMAGE_DATA, TEXTUAL_DATA, IMAGE_DATA>>
    /\ order_calls = 5
    /\ order_state = "after_data"
    /\ order_raised = "PNGSyntaxError"

\* C19: the accepted codes respect the order BEFORE_PALETTE, PLTE,
\* AFTER_PALETTE_BEFORE_DATA, IDAT: a validate call that returns is not for
\* cHRM/gAMA/iCCP/sBIT/sRGB once PLTE, bKGD, hIST or tRNS has been accepted,
\* not for PLTE once bKGD, hIST or tRNS has been accepted, and for none of
\* these codes, nor pHYs or sPLT, once an IDAT has been accepted.
C19_ClassOrder ==
    [][(IsAnyValidate /\ order_raised' = "none") =>
            LET c == order_last'
            IN  /\ c \in SpecBeforePalette
                    => accepted \cap ({PALETTE} \cup SpecAfterPaletteBeforeData) = {}
                /\ c = PALETTE => accepted \cap SpecAfterPaletteBeforeData = {}
                /\ c \in SpecBeforePalette \cup {PALETTE} \cup SpecAfterPaletteBeforeData
                            \cup SpecBeforeData
                    => IMAGE_DATA \notin accepted]_vars

C19_Witness ==
    /\ order_last = PALETTE
    /\ passed[PALETTE] = 1
    /\ accepted = {IMAGE_HEADER, TRANSPARENCY}
    /\ order_state = "after_palette_before_data"
    /\ order_raised = "PNGSyntaxError"

\* the classes of the regular expression of fsm.py
\*   "IHDR" (BEFORE_PALETTE|BEFORE_DATA|ALLOWED_ANYWHERE|UNKNOWN)* "PLTE"?
\*   (AFTER_PALETTE_BEFORE_DATA|BEFORE_DATA|ALLOWED_ANYWHERE|UNKNOWN)* "IDAT"+
\*   (ALLOWED_ANYWHERE|UNKNOWN)* "IEND"
IsUnknown(c) == c \notin SpecKnown

BeforePaletteGroup(c) ==
    c \in SpecBeforePalette \cup SpecBeforeData \cup SpecAllowedAnywhere \/ IsUnknown(c)

AfterPaletteGroup(c) ==
    c \in SpecAfterPaletteBeforeData \cup SpecBeforeData \cup SpecAllowedAnywhere \/ IsUnknown(c)

AfterDataGroup(c) == c \in SpecAllowedAnywhere \/ IsUnknown(c)

\* seq matches the regular expression: the first group ends at p, an optional
\* PLTE follows, the second group ends at q, the IDATs at r, the third group
\* at the last code but one
MatchesRegularExpression(seq) ==
    LET n == Len(seq)
    IN  /\ n >= 3
        /\ seq[1] = IMAGE_HEADER
        /\ seq[n] = IMAGE_TRAILER
        /\ \E p \in 1..(n - 1), plte \in 0..1 :
            \E q \in (p + plte)..(n - 1) :
            \E r \in (q + 1)..(n - 1) :
                /\ \A i \in 2..p : BeforePaletteGroup(seq[i])
                /\ plte = 1 => seq[p + 1] = PALETTE
                /\ \A i \in (p + plte + 1)..q : AfterPaletteGroup(seq[i])
                /\ \A i \in (q + 1)..r : seq[i] = IMAGE_DATA
                /\ \A i \in (r + 1)..(n - 1) : AfterDataGroup(seq[i])

Occurrences(seq, c) == Cardinality({i \in 1..Len(seq) : seq[i] = c})

\* no known code but IDAT, sPLT, iTXt, tEXt, zTXt occurs more than once
SinglesOnce(seq) == \A c \in SpecKnown \ SpecMultiple : Occurrences(seq, c) <= 1

\* C20: for every code sequence up to the bounded length, the parser accepts
\* it (every validate call and then validate_end return) if and only if it
\* matches the regular expression of fsm.py and no known code other than IDAT,
\* sPLT, iTXt, tEXt, zTXt occurs in it more than once.
C20_AcceptsTheLanguage ==
    /\ (Ended /\ order_raised = "none")
            => (MatchesRegularExpression(codes) /\ SinglesOnce(codes))
    /\ order_raised # "none"
            => ~(MatchesRegularExpression(codes) /\ SinglesOnce(codes))

C20_Witness ==
    /\ codes = <<IMAGE_HEADER, TRANSPARENCY, IMAGE_DATA, TEXTUAL_DATA, IMAGE_TRAILER>>
    /\ Ended
    /\ order_raised = "none"

(***************************************************************************)
(* Further properties of the token stream.                                 *)
(***************************************************************************)
\* the bytes the byte source has handed out since the token stream was made
Consumed == Len(contents) - Len(stream)

\* C21: total_bytes_read is the number of bytes consumed from the byte source
\* (the source's position; for an iterated stream the bytes handed out since
\* construction), the bytes of a short read that raises UnexpectedEOF
\* included; when a well-formed stream has been iterated to its end it is the
\* length of the input.
C21_BytesConsumed ==
    /\ total_bytes_read = stream_pos
    /\ Iterating => total_bytes_read = Consumed
    /\ (WellFormed /\ pc = "done") => (raised = "none" /\ total_bytes_read = Len(contents))

\* the stream ends two bytes into the first chunk's length: the read of three
\* bytes is served one byte and raises UnexpectedEOF
C21_Witness ==
    /\ damage = Truncate(10)
    /\ raised = "UnexpectedEOF"
    /\ total_bytes_read = 10
    /\ stream_reads = 3

\* this step is the signature step: the first step of the iteration, or
\* _validate_signature called on a token stream that has read nothing
IsSignatureStep ==
    \/ pc = "signature" /\ pc' # "signature"
    \/ IsCall("_validate_signature") /\ total_bytes_read = 0

\* C22: the signature step issues one read of 8 bytes.  Served 8 bytes that
\* are not 89 50 4E 47 0D 0A 1A 0A it raises SignatureMismatch; served fewer
\* than 8 it raises UnexpectedEOF; served the signature it raises nothing,
\* total_bytes_read is 8, no token has been emitted, and (in the iteration)
\* chunk reading begins, which it does in no other case.
C22_Signature ==
    [][IsSignatureStep =>
            /\ stream_reads' = stream_reads + 1
            /\ total_bytes_read' = Min(8, Len(stream))
            /\ tokens' = <<>>
            /\ (Len(stream) >= 8 /\ SubSeq(stream, 1, 8) # <<137, 80, 78, 71, 13, 10, 26, 10>>)
                    => (raised' = "SignatureMismatch" /\ pc' \in {"done", "calls"})
            /\ Len(stream) < 8
                    => (raised' = "UnexpectedEOF" /\ pc' \in {"done", "calls"})
            /\ (Len(stream) >= 8 /\ SubSeq(stream, 1, 8) = <<137, 80, 78, 71, 13, 10, 26, 10>>)
                    => (raised' = "none" /\ pc' \in {"boundary", "calls"})]_vars

C22_Witness ==
    /\ pc = "done"
    /\ damage.kind = "change"
    /\ damage.at = 8
    /\ raised = "SignatureMismatch"
    /\ total_bytes_read = 8
    /\ tokens = <<>>

Letters == (65..90) \cup (97..122)

\* this step is the head step of a chunk: of the iteration, or _get_chunk_head
\* called with no chunk in flight
IsHeadStep ==
    \/ pc = "head" /\ pc' # "head"
    \/ IsCall("_get_chunk_head") /\ ~InFlight

\* the first byte of the length field the head step works on
LengthByte == IF pc = "head" THEN initial[1] ELSE last_call'.arg

\* C23: every Head token has a length in 0..2^31-1 and a code of four letter
\* bytes.  A head step that finds a declared length above 2^31-1 (a first
\* length byte of 128 or more) raises PNGSyntaxError having read the three
\* remaining length bytes and no code byte; one that finds a code with a byte
\* that is not a letter raises PNGSyntaxError; both emit no token and leave
\* no chunk in flight.
C23_HeadValidated ==
    /\ [](\A i \in TokensOfKind("Head") :
            /\ tokens[i].length >= 0
            /\ tokens[i].length <= PNG_MAX_CHUNK_LENGTH
            /\ Len(tokens[i].code) = 4
            /\ \A k \in 1..4 : tokens[i].code[k] \in Letters)
    /\ [][IsHeadStep =>
            /\ (LengthByte >= 128 /\ Len(stream) >= 3
                    /\ total_bytes_read + 3 <= PNG_MAX_FILE_SIZE)
                    => /\ raised' = "PNGSyntaxError"
                       /\ total_bytes_read' = total_bytes_read + 3
                       /\ stream_reads' = stream_reads + 1
                       /\ tokens' = tokens
                       /\ ~InFlight'
            /\ (LengthByte < 128 /\ Len(stream) >= 7
                    /\ total_bytes_read + 7 <= PNG_MAX_FILE_SIZE
                    /\ \E k \in 4..7 : stream[k] \notin Letters)
                    => /\ raised' = "PNGSyntaxError"
                       /\ tokens' = tokens
                       /\ ~InFlight']_vars

C23_Witness ==
    /\ damage = Change(9, 128)
    /\ raised = "PNGSyntaxError"
    /\ total_bytes_read = 12
    /\ tokens = <<>>
    /\ ~InFlight

\* a code byte changed to a byte that is not a letter
C23_WitnessCode ==
    /\ damage = Change(14, 64)
    /\ raised = "PNGSyntaxError"
    /\ total_bytes_read = 16
    /\ tokens = <<>>

\* the Head tokens yielded so far, in order
Heads == SelectSeq(tokens, LAMBDA t : t.kind = "Head")

\* C24: the position of a Head token is total_bytes_read as it was when the
\* head step began, the first byte of the length field just read; in an
\* iteration that is 9 for the first chunk and, for each later chunk, the
\* position of the chunk before it plus 12 plus that chunk's data length.
C24_HeadPosition ==
    /\ [][(IsHeadStep /\ tokens' # tokens) =>
                tokens'[Len(tokens')].position = total_bytes_read]_vars
    /\ []((Iterating /\ Heads # <<>>) => Heads[1].position = 9)
    /\ [](Iterating =>
            \A i \in 2..Len(Heads) :
                Heads[i].position = Heads[i - 1].position + 12 + Heads[i - 1].length)

C24_Witness ==
    /\ fake_chunks = MinimalStream
    /\ Len(Heads) = 3
    /\ Heads[1].position = 9
    /\ Heads[2].position = 34
    /\ Heads[3].position = 58

(***************************************************************************)
(* Properties of the chunk parsers.                                        *)
(***************************************************************************)
\* the integer four bytes hold, when it is below 2^31
WordValue(b) == ((b[1] * 256 + b[2]) * 256 + b[3]) * 256 + b[4]

\* four bytes that hold an integer in 1 .. 2^31 - 1
WordInRange(b) == b[1] < 128 /\ b # <<0, 0, 0, 0>>

\* the bit depths the specification allows with a color type
SpecBitDepths(color_type) ==
    CASE color_type = 0 -> {1, 2, 4, 8, 16}
      [] color_type = 3 -> {1, 2, 4, 8}
      [] color_type \in {2, 4, 6} -> {8, 16}
      [] OTHER -> {}

\* the payloads the specification has the IHDR parser accept
SpecHeaderAccepted(d) ==
    /\ Len(d) = 13
    /\ WordInRange(SubSeq(d, 1, 4))
    /\ WordInRange(SubSeq(d, 5, 8))
    /\ d[10] \in {0, 2, 3, 4, 6}
    /\ d[9] \in SpecBitDepths(d[10])
    /\ d[11] = 0
    /\ d[12] = 0
    /\ d[13] \in {0, 1}

\* C25: the IHDR parser accepts a payload if and only if it is 13 bytes with
\* width and height in 1..2^31-1, a color type of 0, 2, 3, 4 or 6, a bit depth
\* allowed with it, compression and filter method 0 and interlace method 0 or
\* 1; it then returns an ImageHeader of the decoded values, and for every
\* other payload it raises PNGSyntaxError.
C25_AsStated ==
    (input.kind = "IHDR" /\ result.kind = "parsed") =>
        LET d == input.data_token
        IN  IF SpecHeaderAccepted(d)
            THEN /\ result.exc = "none"
                 /\ result.ret.width = WordValue(SubSeq(d, 1, 4))
                 /\ result.ret.height = WordValue(SubSeq(d, 5, 8))
                 /\ result.ret.bit_depth = d[9]
                 /\ result.ret.color_type = EnumMember("ColorType", d[10])
                 /\ result.ret.compression_method = EnumMember("CompressionMethod", d[11])
                 /\ result.ret.filter_method = EnumMember("FilterMethod", d[12])
                 /\ result.ret.interlace_method = EnumMember("InterlaceMethod", d[13])
            ELSE result.exc = "PNGSyntaxError"

\* the payloads the specification has the PLTE parser accept, for the header of antecedent a
SpecPaletteAccepted(d, a) ==
    /\ Len(d) > 0
    /\ Len(d) % 3 = 0
    /\ Len(d) <= 768
    /\ a.image_header.color_type.value \notin {0, 4}
    /\ a.image_header.color_type.value = 3 => Len(d) <= 3 * 2 ^ a.image_header.bit_depth

\* C26: the PLTE parser accepts a payload if and only if its length is a
\* positive multiple of 3 not above 768, the header's color type is neither
\* grayscale nor grayscale_alpha and, for an indexed image, the length is at
\* most 3 * 2^bit_depth; the palette then has length/3 entries, entry i being
\* the bytes at offsets 3i, 3i+1, 3i+2; every other payload raises
\* PNGSyntaxError.
C26_PaletteParse ==
    (input.kind = "PLTE" /\ result.kind = "parsed") =>
        LET d == input.data_token
        IN  IF SpecPaletteAccepted(d, input.antecedent)
            THEN /\ result.exc = "none"
                 /\ Len(result.ret.palette) * 3 = Len(d)
                 /\ \A i \in 0..(Len(result.ret.palette) - 1) :
                        result.ret.palette[i + 1] = <<d[3 * i + 1], d[3 * i + 2], d[3 * i + 3]>>
            ELSE result.exc = "PNGSyntaxError"

\* a nine-byte palette is refused for an indexed image of bit depth 1 and
\* parsed to three entries for one of bit depth 2
C26_Witness ==
    /\ input.kind = "PLTE"
    /\ result.kind = "parsed"
    /\ Len(input.data_token) = 9
    /\ input.antecedent.image_header.color_type = indexed
    /\ \/ input.antecedent.image_header.bit_depth = 1 /\ result.exc = "PNGSyntaxError"
       \/ input.antecedent.image_header.bit_depth = 2 /\ result.exc = "none" /\ Len(result.ret.palette) = 3

(***************************************************************************)
(* Properties of the decode.                                               *)
(***************************************************************************)
\* the first IDAT of the image has been validated and no PLTE came before it
FirstDataWithoutPalette ==
    \E i \in 1..Len(codes) :
        /\ i <= order_calls
        /\ codes[i] = IMAGE_DATA
        /\ \A j \in 1..(i - 1) : codes[j] \notin {IMAGE_DATA, PALETTE}

\* C27: when the header's color_type is indexed a palette is required before
\* image data: a decode in which the first IDAT arrives with no PLTE chunk
\* accepted before it (such as IHDR(indexed), IDAT, IEND) is rejected with
\* PNGSyntaxError.
C27_AsStated ==
    (/\ input.kind = "image"
     /\ input.antecedent.image_header.color_type = indexed
     /\ FirstDataWithoutPalette) => order_raised = "PNGSyntaxError"

(***************************************************************************)
(* Properties of the pixel locators.                                       *)
(***************************************************************************)
\* the coordinates of a width x height raster in scanline order
ScanlineOrder(width, height) ==
    [i \in 1..(width * height) |-> <<(i - 1) % width, (i - 1) \div width>>]

\* a pass goes by rows: y never decreases, and x increases within a row
RowMajor(pass) ==
    \A i \in 1..(Len(pass) - 1) :
        \/ pass[i][2] < pass[i + 1][2]
        \/ pass[i][2] = pass[i + 1][2] /\ pass[i][1] < pass[i + 1][1]

\* C28: pixel coordinates are enumerated scanline-major: for interlace none
\* the single pass is (0,0), (1,0), ..., (width-1,0), (0,1), ... through row
\* height-1, and for adam7 each pass enumerates its sub-grid in the same
\* row-major order (y varies slowest, x fastest).
C28_AsStated ==
    (input.kind = "locator" /\ result.kind = "parsed") =>
        IF input.interlace_method = none
        THEN result.ret = <<ScanlineOrder(input.width, input.height)>>
        ELSE \A k \in 1..Len(result.ret) : RowMajor(result.ret[k])

\* the pass table of the specification: x start, x stride, y start, y stride
SpecPassTable ==
    <<<<0, 8, 0, 8>>, <<4, 8, 0, 8>>, <<0, 4, 4, 8>>, <<2, 4, 0, 4>>,
      <<0, 2, 2, 4>>, <<1, 2, 0, 2>>, <<0, 1, 1, 2>>>>

\* the pixels of pass k of a width x height image by that table
SpecPassPixels(k, width, height) ==
    LET t == SpecPassTable[k]
    IN  {p \in (0..(width - 1)) \X (0..(height - 1)) :
            /\ p[1] >= t[1] /\ (p[1] - t[1]) % t[2] = 0
            /\ p[2] >= t[3] /\ (p[2] - t[3]) % t[4] = 0}

Flattened(passes) ==
    passes[1] \o passes[2] \o passes[3] \o passes[4] \o passes[5] \o passes[6] \o passes[7]

SpecSamplesPerPixel(color_type) ==
    CASE color_type.value = 0 -> 1
      [] color_type.value = 3 -> 1
      [] color_type.value = 4 -> 2
      [] color_type.value = 2 -> 3
      [] color_type.value = 6 -> 4

SpecBitsPerPixel == SpecSamplesPerPixel(input.color_type) * input.bit_depth

\* C31: for interlace none, _calculate_scanline_sizes yields exactly height
\* values, each equal to 1 + ceil(width * bits_per_pixel / 8), where
\* bits_per_pixel = samples_per_pixel * bit_depth and samples_per_pixel is 1
\* for grayscale, 1 for indexed, 2 for grayscale+alpha, 3 for rgb and 4 for
\* rgb+alpha.
C31_AsStated ==
    (input.kind = "scanlines" /\ input.interlace_method = none /\ result.kind = "parsed") =>
        /\ result.exc = "none"
        /\ Len(result.ret) = input.height
        /\ \A i \in 1..Len(result.ret) :
               result.ret[i] = 1 + ((input.width * SpecBitsPerPixel + 7) \div 8)

\* the columns (start 1, stride 2 of the table row) or rows (3, 4) of pass k
SpecReduced(k, start, stride, size) ==
    Cardinality({v \in 0..(size - 1) :
        v >= SpecPassTable[k][start] /\ (v - SpecPassTable[k][start]) % SpecPassTable[k][stride] = 0})

\* the sizes of the scanlines of pass k, none when the pass has no column or no row
SpecPassSizes(k) ==
    LET reduced_width == SpecReduced(k, 1, 2, input.width)
        reduced_height == SpecReduced(k, 3, 4, input.height)
    IN  IF reduced_width = 0 \/ reduced_height = 0
        THEN <<>>
        ELSE [i \in 1..reduced_height |-> 1 + ((reduced_width * SpecBitsPerPixel + 7) \div 8)]

\* the rows (pass, y) that the Adam7 locator enumerates
LocatorRows ==
    {<<k, p[2]>> : k \in 1..7, p \in (0..(input.width - 1)) \X (0..(input.height - 1))} \cap
    {r \in (1..7) \X (0..(input.height - 1)) :
        \E p \in Range(_adam7_deinterlace_pixel_coordinates(input.width, input.height)[r[1]]) :
            p[2] = r[2]}

\* C32: for interlace adam7, _calculate_scanline_sizes yields, pass by pass
\* for the 7 passes, one size per scanline of the pass: reduced_height_k
\* entries each equal to 1 + ceil(reduced_width_k * bits_per_pixel / 8), and
\* nothing for a pass whose reduced width or height is 0, so that the number
\* of sizes equals the number of distinct (pass, y) rows the Adam7 locator
\* enumerates for the same width and height.
C32_AsStated ==
    (input.kind = "scanlines" /\ input.interlace_method = adam7 /\ result.kind = "parsed") =>
        /\ result.exc = "none"
        /\ result.ret = SpecPassSizes(1) \o SpecPassSizes(2) \o SpecPassSizes(3) \o SpecPassSizes(4)
                           \o SpecPassSizes(5) \o SpecPassSizes(6) \o SpecPassSizes(7)
        /\ Len(result.ret) = Cardinality(LocatorRows)

(***************************************************************************)
(* Properties of the unfilterer.                                           *)
(***************************************************************************)
\* this step hands the unfilterer a scanline of filter type byte f
IsUnfilterScanline(f) ==
    /\ result.kind = "unfilterer"
    /\ result'.kind = "unfilterer"
    /\ result'.calls = result.calls + 1
    /\ Len(input'.scanline) >= 1
    /\ input'.scanline[1] = f

\* C33: the first scanline handed to a subimage unfilterer is reconstructed
\* against an all-zero previous scanline (an up-filtered first scanline
\* reconstructs to its own filtered bytes), and each later scanline against
\* the reconstructed bytes of the scanline before it (previous [10,20,30] and
\* up-filtered data [5,5,5] give [15,25,35]); a fresh unfilterer has no
\* filter history.
C33_AsStated ==
    [][IsUnfilterScanline(2) =>
          LET data == Tail(input'.scanline)
          IN  /\ result.calls = 0 =>
                     /\ result'.exc = "none"
                     /\ result'.ret = PyBytes(data)
              /\ (result.calls > 0 /\ result.exc = "none" /\ Len(result.ret.value) = Len(data)) =>
                     /\ result'.exc = "none"
                     /\ result'.ret = PyBytes([i \in 1..Len(data) |->
                                                  (data[i] + result.ret.value[i]) % 256])]_vars

\* the byte bytes_per_pixel to the left of position x (from 0) in a scanline, 0 before its start
LeftOf(scanline, x) ==
    IF x < result.self._bytes_per_pixel THEN 0 ELSE scanline[x - result.self._bytes_per_pixel + 1]

\* C34: for an average-filtered scanline every reconstructed byte is
\* Recon(x) = (Filt(x) + floor((a + b) / 2)) mod 256, where a is the byte
\* already reconstructed at x - bytes_per_pixel of the current scanline (0
\* when x < bytes_per_pixel) and b the reconstructed byte at x of the previous
\* scanline, for every bytes_per_pixel >= 1 and every scanline length.
C34_AsStated ==
    (input.kind = "method" /\ input.name = "average" /\ result.kind = "unfiltered") =>
        /\ result.exc = "none"
        /\ Len(result.ret.value) = Len(input.scanline_data)
        /\ \A x \in 0..(Len(input.scanline_data) - 1) :
               result.ret.value[x + 1] =
                   (input.scanline_data[x + 1]
                        + ((LeftOf(result.ret.value, x) + input.previous[x + 1]) \div 2)) % 256

\* PaethPredictor of the specification
SpecPaethPredictor(a, b, c) ==
    LET p == a + b - c
        dist_a == IF p >= a THEN p - a ELSE a - p
        dist_b == IF p >= b THEN p - b ELSE b - p
        dist_c == IF p >= c THEN p - c ELSE c - p
    IN  IF dist_a <= dist_b /\ dist_a <= dist_c THEN a ELSE IF dist_b <= dist_c THEN b ELSE c

IsUnfilterExpected(f) ==
    /\ IsUnfilterScanline(f)
    /\ \/ result.self._last_scanline_data = None
       \/ Len(result.self._last_scanline_data.value) = Len(input'.scanline) - 1

\* C36: unfilter_scanline accepts a scanline whose leading byte is 0, 1, 2, 3
\* or 4 (none, sub, up, average, paeth) and raises PNGSyntaxError for every
\* other leading byte value, without changing the stored previous scanline.
C36_AsStated ==
    [][\A f \in FilterTypeBytes :
          IsUnfilterExpected(f) =>
              IF f \in 0..4
              THEN result'.exc # "PNGSyntaxError"
              ELSE /\ result'.exc = "PNGSyntaxError"
                   /\ result'.self._last_scanline_data = result.self._last_scanline_data]_vars

(***************************************************************************)
(* Properties of the decompressor.                                         *)
(***************************************************************************)
\* the units of the stream up to and including its end
StreamLength == CHOOSE i \in 1..Len(input.stream) : input.stream[i] = "t"

\* C37: verify_end raises DecompressionNotFinished when input handed to
\* decompress is still unconsumed or the deflate stream has not reported its
\* end, otherwise raises DecompressionFinishedEarly when bytes remain after
\* the stream's logical end, and succeeds only when the stream has ended with
\* all input consumed.
C37_VerifyEnd ==
    (input.kind = "deflate" /\ result.verified) =>
        LET self == result.self
            unconsumed == self._last_unconsumed # <<>>
            ended == self._decompressor.eof
            after_end == self._decompressor.unused_data # <<>>
        IN  /\ (unconsumed \/ ~ended) => result.exc = "DecompressionNotFinished"
            /\ (~unconsumed /\ ended /\ after_end) => result.exc = "DecompressionFinishedEarly"
            /\ (~unconsumed /\ ended /\ ~after_end) => result.exc = "none"
            /\ input.fed < StreamLength => result.exc = "DecompressionNotFinished"
            /\ result.exc = "DecompressionFinishedEarly" => input.fed > StreamLength
            /\ result.exc = "none" =>
                   /\ input.fed = StreamLength
                   /\ self.decompressed = StreamLength - 1

\* verify_end has raised DecompressionNotFinished for a stream that has ended
\* with a byte after its end, handed over but not consumed
C37_Witness ==
    /\ input.kind = "deflate"
    /\ result.verified
    /\ result.exc = "DecompressionNotFinished"
    /\ result.self._decompressor.eof
    /\ result.self._decompressor.unused_data = <<"x">>
    /\ result.self._last_unconsumed = <<"x">>

(***************************************************************************)
(* Properties of the end step of a chunk.                                  *)
(***************************************************************************)
\* the index of the Head token of the chunk that was yielded last
LastHead == Len(tokens) - Cardinality({i \in 1..Len(tokens) : \A j \in i..Len(tokens) : tokens[j].kind # "Head"})

\* the CRC the stream declares for the chunk whose Head token is at index h is
\* the CRC-32 of the chunk's type code and data as they are in the stream
DeclaredCRCMatches(h) ==
    LET p == tokens[h].position - 1
        n == tokens[h].length
    IN  crc32(SubSeq(contents, p + 5, p + 8 + n), U32(0, 0))
            = UnpackU32(SubSeq(contents, p + 9 + n, p + 12 + n))

\* C38: when BadCRC is raised, the Head token and all the DataPart tokens of the
\* chunk whose declared CRC does not match have been yielded and no End token is
\* yielded for it; an End token is yielded only for a chunk whose declared CRC
\* matches, and every End token the iteration yields has crc32ok = true.
C38_BadCRC ==
    Iterating =>
        /\ \A i \in 1..Len(tokens) : tokens[i].kind = "End" => tokens[i].crc32ok
        /\ (tokens # <<>> /\ tokens[Len(tokens)].kind = "End") => DeclaredCRCMatches(LastHead)
        /\ raised = "BadCRC" =>
               /\ LastHead >= 1
               /\ LastPart(LastHead) = Len(tokens)
               /\ \A j \in (LastHead + 1)..Len(tokens) : tokens[j].head = tokens[LastHead]
               /\ Len(Payload(LastHead + 1, Len(tokens))) = tokens[LastHead].length
               /\ ~DeclaredCRCMatches(LastHead)

\* the last data byte of a long IDAT was changed: after the End of IHDR, the
\* Head of IDAT and its DataParts (more than one), BadCRC and no End for IDAT
C38_Witness ==
    /\ Iterating
    /\ raised = "BadCRC"
    /\ Len(tokens) = 3 + 1 + (MaxParts + 1)
    /\ tokens[3].kind = "End"
    /\ tokens[3].crc32ok
    /\ tokens[4].kind = "Head"
    /\ tokens[4].length > PNG_CHUNK_MAX_DATA_READ
    /\ \A j \in 5..Len(tokens) : tokens[j].kind = "DataPart"

(***************************************************************************)
(* Properties of a rejected validate call.                                 *)
(***************************************************************************)
\* this step is a validate call that raises PNGSyntaxError
ValidateRaises == order_calls' = order_calls + 1 /\ order_last' # <<>> /\ order_raised' = "PNGSyntaxError"

\* the exception validate would raise for chunk_code, before and after this step
VerdictBefore(chunk_code) == validate(order_state, nseen, chunk_code).exc

VerdictAfter(chunk_code) == validate(order_state', nseen', chunk_code).exc

\* the code was passed before, is a known one and may occur only once
OnceOnlyAndSeen(chunk_code) == nseen[chunk_code] >= 1 /\ chunk_code \in _KNOWN_CHUNKS \ _multiple_allowed

InChunkLoop == pc \in {"boundary", "head", "data"}

\* C40: iterating a finite byte source terminates, with a clean end or with an
\* exception: every step of the chunk loop either takes at least one byte from
\* the byte source or ends the iteration, also for a chunk of declared length 0
\* (whose end step reads the 4 CRC bytes), and no step reads past the end of the
\* source; so the iteration ends.
C40_Terminates ==
    /\ [][InChunkLoop => (stream_pos' > stream_pos \/ pc' = "done")]_vars
    /\ [](stream_pos <= Len(contents))
    /\ <>(pc = "done")

\* the whole of a stream with a chunk of declared length 0 was iterated: the
\* iteration ended cleanly after the End token of the empty IEND
C40_Witness ==
    /\ pc = "done"
    /\ raised = "none"
    /\ stream = <<>>
    /\ tokens # <<>>
    /\ tokens[Len(tokens)].kind = "End"
    /\ tokens[Len(tokens)].head.length = 0
    /\ tokens[Len(tokens) - 1].kind = "Head"

====
